---- MODULE Spec2Model ----
(***************************************************************************)
(* Query safety and execution pipeline of TalkingLakeHouseMVP:             *)
(* RateLimiter (src/src/middleware/rate_limiter.py),                       *)
(* QueryExecutor (src/src/database/query_executor.py),                     *)
(* DatabaseConnectionManager (src/src/database/connection_manager.py),     *)
(* TemplateLoader (src/src/templates/template_loader.py),                  *)
(* QueryPipeline.process_query and the query_sales endpoint.               *)
(*                                                                         *)
(* Each subsystem has its own specification over the shared variables;     *)
(* a subsystem's actions leave the other subsystems' variables unchanged.  *)
(***************************************************************************)
EXTENDS Integers, Sequences, FiniteSets, TLC

\* ---------------------------------------------------------------- bounds
\* Largest configured rate_limit_per_minute explored (the setting is read
\* from the environment; 0 is a value it can take).
MaxRateLimit == 2
\* The clock stops advancing here.
MaxTime == 62
\* Largest configured database_pool_size explored.
MaxPoolSize == 2

Callers == {"u1", "u2"}
Threads == {"t1", "t2"}
\* Amounts by which time.time() advances between two reads: together they
\* produce ages of exactly 60 s (retained) and 61 s (evicted).
ClockSteps == {30, 31}

\* ------------------------------------------------------------------- text
\* A Python str is modelled as the sequence of its characters.
LowerLetters == <<"a","b","c","d","e","f","g","h","i","j","k","l","m",
                  "n","o","p","q","r","s","t","u","v","w","x","y","z">>
UpperLetters == <<"A","B","C","D","E","F","G","H","I","J","K","L","M",
                  "N","O","P","Q","R","S","T","U","V","W","X","Y","Z">>
Digits == <<"0","1","2","3","4","5","6","7","8","9">>

Range(f) == {f[i] : i \in DOMAIN f}

\* regex \s, and the characters str.strip() removes
IsSpace(c) == c \in {" ", "\t", "\n", "\r", "\f"}
\* regex \d
IsDigit(c) == c \in Range(Digits)
IsLetter(c) == c \in Range(LowerLetters) \cup Range(UpperLetters)
\* regex \w
IsWordChar(c) == IsLetter(c) \/ IsDigit(c) \/ c = "_"

UpperChar(c) ==
    IF c \in Range(LowerLetters)
    THEN UpperLetters[CHOOSE i \in DOMAIN LowerLetters : LowerLetters[i] = c]
    ELSE c

\* str.upper()
Upper(str) == [i \in DOMAIN str |-> UpperChar(str[i])]

\* str.rstrip()
RECURSIVE RStrip(_)
RStrip(str) ==
    IF str # <<>> /\ IsSpace(str[Len(str)])
    THEN RStrip(SubSeq(str, 1, Len(str) - 1))
    ELSE str

\* str.lstrip()
RECURSIVE LStrip(_)
LStrip(str) ==
    IF str # <<>> /\ IsSpace(Head(str)) THEN LStrip(Tail(str)) ELSE str

\* str.strip()
Strip(str) == RStrip(LStrip(str))

\* str.rstrip(ch): every trailing occurrence of ch is removed
RECURSIVE RStripChar(_, _)
RStripChar(str, ch) ==
    IF str # <<>> /\ str[Len(str)] = ch
    THEN RStripChar(SubSeq(str, 1, Len(str) - 1), ch)
    ELSE str

\* str.startswith(prefix)
StartsWith(str, prefix) ==
    Len(str) >= Len(prefix) /\ SubSeq(str, 1, Len(prefix)) = prefix

\* The literal lit stands in str at position i.
MatchesAt(str, i, lit) ==
    /\ i >= 1
    /\ i + Len(lit) - 1 <= Len(str)
    /\ SubSeq(str, i, i + Len(lit) - 1) = lit

\* re.search: the leftmost of the positions where the pattern matches
Leftmost(positions) == CHOOSE i \in positions : \A j \in positions : i <= j

\* lit in str
Contains(str, lit) == \E i \in 1..Len(str) : MatchesAt(str, i, lit)

\* regex \b between the characters i-1 and i of str
WordBoundaryAt(str, i) ==
    LET before == i > 1 /\ i - 1 <= Len(str) /\ IsWordChar(str[i - 1])
        after == i >= 1 /\ i <= Len(str) /\ IsWordChar(str[i])
    IN before # after

\* re.search(re.escape(keyword), str): the pattern without its \b
SearchWordAnywhere(str, keyword) == Contains(str, keyword)

\* re.search(r'\b' + re.escape(keyword) + r'\b', str)
SearchWord(str, keyword) ==
    \E i \in 1..Len(str) :
        /\ WordBoundaryAt(str, i)
        /\ MatchesAt(str, i, keyword)
        /\ WordBoundaryAt(str, i + Len(keyword))

\* The end (exclusive) of the longest run of characters satisfying the class
\* that starts at i: a greedy regex repetition.
RECURSIVE SpanSpace(_, _)
SpanSpace(str, i) ==
    IF i <= Len(str) /\ IsSpace(str[i]) THEN SpanSpace(str, i + 1) ELSE i
RECURSIVE SpanDigit(_, _)
SpanDigit(str, i) ==
    IF i <= Len(str) /\ IsDigit(str[i]) THEN SpanDigit(str, i + 1) ELSE i
RECURSIVE SpanWord(_, _)
SpanWord(str, i) ==
    IF i <= Len(str) /\ IsWordChar(str[i]) THEN SpanWord(str, i + 1) ELSE i

\* int(digits)
RECURSIVE DigitsToInt(_)
DigitsToInt(ds) ==
    IF ds = <<>> THEN 0
    ELSE 10 * DigitsToInt(SubSeq(ds, 1, Len(ds) - 1))
         + (CHOOSE d \in 0..9 : Digits[d + 1] = ds[Len(ds)])

\* str(n) for n >= 0
RECURSIVE IntToDigits(_)
IntToDigits(n) ==
    IF n < 10 THEN <<Digits[n + 1]>>
    ELSE Append(IntToDigits(n \div 10), Digits[(n % 10) + 1])

\* ---------------------------------------------------------------- settings
\* config/settings.py, Settings: the values the validators read.
TSalesTransactions == <<"s","a","l","e","s","_","t","r","a","n","s","a","c","t","i","o","n","s">>
TWebsiteVisits == <<"w","e","b","s","i","t","e","_","v","i","s","i","t","s">>
TUsers == <<"u","s","e","r","s">>
\* Settings.whitelisted_tables
whitelisted_tables == {TSalesTransactions, TWebsiteVisits}
\* Settings.blocked_keywords, upper-cased by SQLValidator.__init__
blocked_keywords ==
    {<<"D","R","O","P">>,
     <<"D","E","L","E","T","E">>,
     <<"U","P","D","A","T","E">>,
     <<"I","N","S","E","R","T">>,
     <<"T","R","U","N","C","A","T","E">>,
     <<"A","L","T","E","R">>,
     <<"C","R","E","A","T","E">>,
     <<"G","R","A","N","T">>,
     <<"R","E","V","O","K","E">>,
     <<"E","X","E","C">>,
     <<"E","X","E","C","U","T","E">>,
     <<"M","E","R","G","E">>,
     <<"R","E","P","L","A","C","E">>}
default_row_limit == 100
max_row_limit == 1000

\* Literals of the validators' patterns.
KwSelect == <<"S","E","L","E","C","T">>
KwFrom == <<"F","R","O","M">>
KwJoin == <<"J","O","I","N">>
KwLimit == <<"L","I","M","I","T">>
KwUnion == <<" ","U","N","I","O","N"," ">>
KwUnionAll == <<" ","U","N","I","O","N"," ","A","L","L"," ">>
LineComment == <<"-","-">>
BlockCommentOpen == <<"/","*">>
BlockCommentClose == <<"*","/">>
Semicolon == <<";">>

\* ------------------------------------------------------------- statements
\* SQL texts handed to QueryExecutor.execute_query.
\* SELECT date, revenue FROM sales_transactions
SqlSalesByDate ==
    <<"S","E","L","E","C","T"," ","d","a","t","e",","," ","r","e","v","e","n",
    "u","e"," ","F","R","O","M"," ","s","a","l","e","s","_","t","r","a","n",
    "s","a","c","t","i","o","n","s">>
\* SELECT * FROM users
SqlUsers ==
    <<"S","E","L","E","C","T"," ","*"," ","F","R","O","M"," ","u","s","e","r",
    "s">>
\* SELECT * FROM sales_transactions; DROP TABLE sales_transactions
SqlScenarioB ==
    <<"S","E","L","E","C","T"," ","*"," ","F","R","O","M"," ","s","a","l","e",
    "s","_","t","r","a","n","s","a","c","t","i","o","n","s",";"," ","D","R",
    "O","P"," ","T","A","B","L","E"," ","s","a","l","e","s","_","t","r","a",
    "n","s","a","c","t","i","o","n","s">>
\* DELETE FROM sales_transactions
SqlDelete ==
    <<"D","E","L","E","T","E"," ","F","R","O","M"," ","s","a","l","e","s","_",
    "t","r","a","n","s","a","c","t","i","o","n","s">>
\* SELECT a FROM sales_transactions JOIN users ON a = b
SqlJoinUsers ==
    <<"S","E","L","E","C","T"," ","a"," ","F","R","O","M"," ","s","a","l","e",
    "s","_","t","r","a","n","s","a","c","t","i","o","n","s"," ","J","O","I",
    "N"," ","u","s","e","r","s"," ","O","N"," ","a"," ","="," ","b">>
\* SELECT a FROM website_visits LIMIT 5000;
SqlLimitHuge ==
    <<"S","E","L","E","C","T"," ","a"," ","F","R","O","M"," ","w","e","b","s",
    "i","t","e","_","v","i","s","i","t","s"," ","L","I","M","I","T"," ","5",
    "0","0","0",";">>
\* SELECT a FROM sales_transactions
\*    WHERE a IN (SELECT a FROM sales_transactions)
SqlSubquery ==
    <<"S","E","L","E","C","T"," ","a"," ","F","R","O","M"," ","s","a","l","e",
        "s","_","t","r","a","n","s","a","c","t","i","o","n","s"," ","W","H",
        "E","R","E"," ","a"," ","I","N"," ","(","S","E","L","E","C","T"," ",
        "a"," ","F","R","O","M"," ","s","a","l","e","s","_","t","r","a","n",
        "s","a","c","t","i","o","n","s",")">>
\* sql_structure of Scenario A's template:
\* SELECT date, revenue FROM sales_transactions
\*    WHERE date BETWEEN {start_date} AND {end_date}
SqlSalesByDateRange ==
    <<"S","E","L","E","C","T"," ","d","a","t","e",","," ","r","e","v","e","n",
    "u","e"," ","F","R","O","M"," ","s","a","l","e","s","_","t","r","a","n",
    "s","a","c","t","i","o","n","s"," ","W","H","E","R","E"," ","d","a","t",
    "e"," ","B","E","T","W","E","E","N"," ","{","s","t","a","r","t","_","d",
    "a","t","e","}"," ","A","N","D"," ","{","e","n","d","_","d","a","t","e",
    "}">>

\* The statements QueryExecutor.execute_query is called with.
ExecStatements ==
    {SqlSalesByDate, SqlUsers, SqlScenarioB, SqlDelete, SqlJoinUsers,
     SqlLimitHuge, SqlSubquery}

\* --------------------------------------------------------- SQLValidator
\* A validator returns (is_valid, error_message); the message is kept as the
\* check that produced it and the identifiers it names.
Accepted == [valid |-> TRUE, check |-> "", names |-> {}]
Rejected(check, names) == [valid |-> FALSE, check |-> check, names |-> names]

\* SQLValidator.validate_select_only
validate_select_only(sql) ==
    IF ~StartsWith(Upper(Strip(sql)), KwSelect)
    THEN Rejected("select_only", {})
    ELSE Accepted

\* SQLValidator.validate_no_blocked_keywords
validate_no_blocked_keywords(sql) ==
    LET sql_upper == Upper(sql)
        found_keywords == {keyword \in blocked_keywords :
                              SearchWord(sql_upper, keyword)}
    IN IF found_keywords # {}
       THEN Rejected("blocked_keywords", found_keywords)
       ELSE Accepted

\* SQLValidator.validate_no_comments
validate_no_comments(sql) ==
    IF Contains(sql, LineComment) THEN Rejected("comments", {})
    ELSE IF Contains(sql, BlockCommentOpen) \/ Contains(sql, BlockCommentClose)
    THEN Rejected("comments", {})
    ELSE Accepted

\* SQLValidator.validate_no_semicolons
validate_no_semicolons(sql) ==
    LET sql_trimmed == RStripChar(RStrip(sql), ";")
    IN IF Contains(sql_trimmed, Semicolon)
       THEN Rejected("semicolons", {})
       ELSE Accepted

\* SQLValidator.validate_no_unions
validate_no_unions(sql) ==
    LET sql_upper == Upper(sql)
    IN IF Contains(sql_upper, KwUnion) \/ Contains(sql_upper, KwUnionAll)
       THEN Rejected("unions", {})
       ELSE Accepted

\* SQLValidator.validate_query: the five checks in order, the first failure
\* is returned.
SQLValidator_validate_query(sql) ==
    IF ~validate_select_only(sql).valid THEN validate_select_only(sql)
    ELSE IF ~validate_no_blocked_keywords(sql).valid
    THEN validate_no_blocked_keywords(sql)
    ELSE IF ~validate_no_comments(sql).valid THEN validate_no_comments(sql)
    ELSE IF ~validate_no_semicolons(sql).valid THEN validate_no_semicolons(sql)
    ELSE IF ~validate_no_unions(sql).valid THEN validate_no_unions(sql)
    ELSE Accepted

\* ----------------------------------------------------- WhitelistValidator
\* r'(?:FROM|JOIN)\s+([a-z_][a-z0-9_]*)' (re.IGNORECASE) matches at
\* position i of sql.
TableMatchAt(sql, i) ==
    LET nameStart == SpanSpace(sql, i + 4)
    IN /\ MatchesAt(Upper(sql), i, KwFrom) \/ MatchesAt(Upper(sql), i, KwJoin)
       /\ nameStart > i + 4
       /\ nameStart <= Len(sql)
       /\ (IsLetter(sql[nameStart]) \/ sql[nameStart] = "_")

\* re.findall of that pattern, scanning from position i: the table names of
\* the matches, which do not overlap.
RECURSIVE FindTables(_, _)
FindTables(sql, i) ==
    LET matches == {j \in i..Len(sql) : TableMatchAt(sql, j)}
        first == Leftmost(matches)
        nameStart == SpanSpace(sql, first + 4)
        nameEnd == SpanWord(sql, nameStart)
    IN IF matches = {} THEN {}
       ELSE {SubSeq(sql, nameStart, nameEnd - 1)} \cup FindTables(sql, nameEnd)

\* WhitelistValidator.validate_tables
validate_tables(sql, allowed_tables) ==
    LET allowed_set == Range(allowed_tables)
        unauthorized == allowed_set \ whitelisted_tables
        found_tables == FindTables(sql, 1)
        unauthorized_tables == found_tables \ allowed_set
    IN IF unauthorized # {}
       THEN Rejected("global_whitelist", unauthorized)
       ELSE IF unauthorized_tables # {}
       THEN Rejected("table_whitelist", unauthorized_tables)
       ELSE Accepted

\* WhitelistValidator.validate_no_subqueries: sql.upper().count("SELECT"),
\* the occurrences of SELECT do not overlap.
validate_no_subqueries(sql) ==
    LET sql_upper == Upper(sql)
        select_count ==
            Cardinality({i \in 1..Len(sql) : MatchesAt(sql_upper, i,
                KwSelect)})
    IN IF select_count > 1 THEN Rejected("subqueries", {}) ELSE Accepted


\* ------------------------------------------- QueryExecutor.inject_limit_clause
\* An Optional[int] argument: <<>> is None, <<n>> is the integer n.
None == <<>>
Some(n) == <<n>>

\* str(n)
IntToStr(n) == IF n < 0 THEN <<"-">> \o IntToDigits(0 - n) ELSE IntToDigits(n)

\* r'\bLIMIT\s+\d+' (re.IGNORECASE) matches at position i of sql.
LimitMatchAt(sql, i) ==
    /\ WordBoundaryAt(sql, i)
    /\ MatchesAt(Upper(sql), i, KwLimit)
    /\ SpanSpace(sql, i + 5) > i + 5
    /\ SpanDigit(sql, SpanSpace(sql, i + 5)) > SpanSpace(sql, i + 5)

\* The end (exclusive) of the match of r'\bLIMIT\s+\d+' at position i.
LimitMatchEnd(sql, i) == SpanDigit(sql, SpanSpace(sql, i + 5))

\* re.search(r'\bLIMIT\s+\d+', sql, re.IGNORECASE)
HasLimitClause(sql) == \E i \in 1..Len(sql) : LimitMatchAt(sql, i)

\* int(match.group(1)) of re.search(r'\bLIMIT\s+(\d+)', sql, re.IGNORECASE):
\* the number of the leftmost match.
ExistingLimit(sql) ==
    LET first == CHOOSE i \in 1..Len(sql) :
                    /\ LimitMatchAt(sql, i)
                    /\ \A j \in 1..(i - 1) : ~LimitMatchAt(sql, j)
    IN DigitsToInt(SubSeq(sql, SpanSpace(sql, first + 5),
                          LimitMatchEnd(sql, first) - 1))

\* re.sub(r'\bLIMIT\s+\d+', replacement, sql, flags=re.IGNORECASE) from
\* position i on: every match, left to right, without overlap.
RECURSIVE SubLimit(_, _, _)
SubLimit(sql, i, replacement) ==
    LET matches == {j \in i..Len(sql) : LimitMatchAt(sql, j)}
        first == Leftmost(matches)
    IN IF matches = {} THEN SubSeq(sql, i, Len(sql))
       ELSE SubSeq(sql, i, first - 1) \o replacement
            \o SubLimit(sql, LimitMatchEnd(sql, first), replacement)

\* QueryExecutor.inject_limit_clause
inject_limit_clause(sql, limit) ==
    LET requested == IF limit = None \/ limit = Some(0)
                     THEN default_row_limit ELSE limit[1]
        max_limit == max_row_limit
        capped == IF requested < max_limit THEN requested ELSE max_limit
    IN IF HasLimitClause(sql)
       THEN IF ExistingLimit(sql) > max_limit
            THEN SubLimit(sql, 1, KwLimit \o <<" ">> \o IntToStr(max_limit))
            ELSE sql
       ELSE RStripChar(RStrip(sql), ";") \o <<" ">> \o KwLimit \o <<" ">>
            \o IntToStr(capped)

\* ------------------------------------------------------------ LimitInjector
\* Only None gives the default: a requested limit of 0 is kept.
OrDefaultOfNoneOnly(requested_limit) ==
    IF requested_limit = None THEN default_row_limit ELSE requested_limit[1]

\* requested_limit or self.default_limit: None and 0 give the default.
OrDefault(requested_limit) ==
    IF requested_limit = None \/ requested_limit = Some(0)
    THEN default_row_limit ELSE requested_limit[1]
\* min(limit, self.max_limit)
Min(a, b) == IF a < b THEN a ELSE b

\* LimitInjector._has_limit_clause
_has_limit_clause(sql) == HasLimitClause(sql)

\* LimitInjector._replace_limit: the statement is rewritten only if the
\* number of its leftmost LIMIT clause exceeds the maximum; the limit argument
\* is not used.
_replace_limit(sql, limit) ==
    IF HasLimitClause(sql) /\ ExistingLimit(sql) > max_row_limit
    THEN SubLimit(sql, 1, KwLimit \o <<" ">> \o IntToStr(max_row_limit))
    ELSE sql

\* f"{sql} LIMIT {limit}" without the removal of the terminator
_add_limit_keeping_terminator(sql, limit) ==
    sql \o <<" ">> \o KwLimit \o <<" ">> \o IntToStr(limit)

\* LimitInjector._add_limit: both branches of the ORDER BY test append.
_add_limit(sql, limit) ==
    RStripChar(RStrip(sql), ";") \o <<" ">> \o KwLimit \o <<" ">>
        \o IntToStr(limit)

\* LimitInjector.inject_limit
inject_limit(sql, requested_limit, template_requires_limit) ==
    IF ~template_requires_limit THEN sql
    ELSE IF _has_limit_clause(sql)
    THEN _replace_limit(sql, Min(OrDefault(requested_limit), max_row_limit))
    ELSE _add_limit(sql, Min(OrDefault(requested_limit), max_row_limit))

\* LimitInjector.validate_limit: (is_valid, error_message, adjusted_limit)
validate_limit(limit) ==
    IF limit <= 0
    THEN [valid |-> FALSE, message |-> "must be positive",
          adjusted |-> default_row_limit]
    ELSE IF limit > max_row_limit
    THEN [valid |-> TRUE, message |-> "adjusted to maximum",
          adjusted |-> max_row_limit]
    ELSE [valid |-> TRUE, message |-> "", adjusted |-> limit]


\* ------------------------------------------------------------ request text
\* IntentClassifier, TemplateSelector and ParameterExtractor: what a request
\* path derives from the text of the user's question.

LowerChar(c) ==
    IF c \in Range(UpperLetters)
    THEN LowerLetters[CHOOSE i \in DOMAIN UpperLetters : UpperLetters[i] = c]
    ELSE c

\* str.lower()
Lower(str) == [i \in DOMAIN str |-> LowerChar(str[i])]

\* str.replace(old, new) from position i on, old not empty: every
\* occurrence, left to right, without overlap.
RECURSIVE ReplaceFrom(_, _, _, _)
ReplaceFrom(str, i, old, new) ==
    LET matches == {j \in i..Len(str) : MatchesAt(str, j, old)}
        first == Leftmost(matches)
    IN IF matches = {} THEN SubSeq(str, i, Len(str))
       ELSE SubSeq(str, i, first - 1) \o new
            \o ReplaceFrom(str, first + Len(old), old, new)

\* str.replace(old, new)
Replace(str, old, new) == ReplaceFrom(str, 1, old, new)

\* any(word in text for word in words)
AnyIn(text, words) == \E w \in words : Contains(text, w)

\* IntentClassifier._load_indicators, the indicator lists used when the
\* few-shot file gives none of its own
sales_indicators ==
    {<<"s","a","l","e","s">>, <<"r","e","v","e","n","u","e">>, <<"p","r","o",
        "d","u","c","t","s">>, <<"t","r","a","n","s","a","c","t","i","o","n",
        "s">>, <<"p","u","r","c","h","a","s","e","s">>, <<"o","r","d","e","r",
        "s">>}
traffic_indicators ==
    {<<"v","i","s","i","t","o","r","s">>, <<"v","i","s","i","t","s">>, <<"t",
        "r","a","f","f","i","c">>, <<"s","e","s","s","i","o","n","s">>, <<"p",
        "a","g","e","v","i","e","w","s">>}
conversion_indicators ==
    {<<"c","o","n","v","e","r","s","i","o","n">>, <<"r","a","t","e">>, <<"b",
        "u","s","i","n","e","s","s">>, <<"p","e","r","f","o","r","m","a","n",
        "c","e">>, <<"m","e","t","r","i","c","s">>}

\* IntentClassifier.classify: the category with the most indicators in the
\* lower-cased question; max() keeps the first of equal scores.
classify(user_query) ==
    LET query_lower == Lower(user_query)
        score(indicators) ==
            Cardinality({kw \in indicators : Contains(query_lower, kw)})
        sales_score == score(sales_indicators)
        traffic_score == score(traffic_indicators)
        conversion_score == score(conversion_indicators)
    IN IF sales_score = 0 /\ traffic_score = 0 /\ conversion_score = 0
       THEN "unknown"
       ELSE IF sales_score >= traffic_score /\ sales_score >= conversion_score
       THEN "sales"
       ELSE IF traffic_score >= conversion_score THEN "traffic"
       ELSE "conversion"

\* QueryPipeline._classify_intent
_classify_intent(user_query) ==
    LET query_lower == Lower(user_query)
    IN IF AnyIn(query_lower,
                {<<"s","a","l","e","s">>, <<"r","e","v","e","n","u","e">>,
                    <<"p","r","o","d","u","c","t","s">>, <<"t","r","a","n",
                    "s","a","c","t","i","o","n","s">>, <<"p","u","r","c","h",
                    "a","s","e","s">>})
       THEN "sales"
       ELSE IF AnyIn(query_lower, {<<"v","i","s","i","t","o","r","s">>, <<"v",
           "i","s","i","t","s">>, <<"t","r","a","f","f","i","c">>, <<"s","e",
           "s","s","i","o","n","s">>})
       THEN "traffic"
       ELSE IF AnyIn(query_lower,
                     {<<"c","o","n","v","e","r","s","i","o","n">>, <<"r","a",
                         "t","e">>, <<"b","u","s","i","n","e","s","s">>,
                         <<"p","e","r","f","o","r","m","a","n","c","e">>})
       THEN "conversion"
       ELSE "unknown"

\* No template id: the None of the selectors.
NoTemplateId == "none"

\* QueryPipeline._select_template: return None, 0.0
_select_template(user_query, intent) == NoTemplateId

\* ---- dates: a datetime.date is <<year, month, day>>
\* datetime.now().date() while the requests of the model are served
Today == <<2024, 10, 20>>

IsLeap(y) == (y % 4 = 0 /\ y % 100 # 0) \/ y % 400 = 0

DaysInMonth(y, m) ==
    IF m = 2 THEN (IF IsLeap(y) THEN 29 ELSE 28)
    ELSE IF m \in {4, 6, 9, 11} THEN 30 ELSE 31

\* d - timedelta(days=1)
PreviousDay(d) ==
    IF d[3] > 1 THEN <<d[1], d[2], d[3] - 1>>
    ELSE IF d[2] > 1 THEN <<d[1], d[2] - 1, DaysInMonth(d[1], d[2] - 1)>>
    ELSE <<d[1] - 1, 12, 31>>

\* d - timedelta(days=n); each day is computed once, as the value p
RECURSIVE MinusDays(_, _)
MinusDays(d, n) ==
    IF n = 0 THEN d
    ELSE CHOOSE r \in {MinusDays(p, n - 1) : p \in {PreviousDay(d)}} : TRUE

\* date.weekday(): Monday is 0
Weekday(d) ==
    LET t == <<0, 3, 2, 5, 0, 3, 5, 1, 4, 6, 2, 4>>
        y == IF d[2] < 3 THEN d[1] - 1 ELSE d[1]
        sunday0 == (y + (y \div 4) - (y \div 100) + (y \div 400)
                    + t[d[2]] + d[3]) % 7
    IN (sunday0 + 6) % 7

\* str(n) zero-padded to width digits
RECURSIVE ZeroPad(_, _)
ZeroPad(ds, width) ==
    IF Len(ds) >= width THEN ds ELSE ZeroPad(<<"0">> \o ds, width)

\* date.isoformat()
isoformat(d) ==
    ZeroPad(IntToDigits(d[1]), 4) \o <<"-">> \o ZeroPad(IntToDigits(d[2]), 2)
    \o <<"-">> \o ZeroPad(IntToDigits(d[3]), 2)

\* calendar.month_name, lower-cased: what %B matches, ignoring case
MonthNames ==
    <<<<"j","a","n","u","a","r","y">>, <<"f","e","b","r","u","a","r","y">>,
        <<"m","a","r","c","h">>, <<"a","p","r","i","l">>, <<"m","a","y">>,
        <<"j","u","n","e">>, <<"j","u","l","y">>,
      <<"a","u","g","u","s","t">>, <<"s","e","p","t","e","m","b","e","r">>,
          <<"o","c","t","o","b","e","r">>, <<"n","o","v","e","m","b","e",
          "r">>, <<"d","e","c","e","m","b","e","r">>>>

\* datetime.strptime(f"{month} {day} {year}", "%B %d %Y").date(), or <<>> for
\* the ValueError: %B takes a full month name, %d one or two digits making
\* 1..31, and the day must exist in the month.
strptime(month, day, year) ==
    LET ms == {m \in 1..12 : MonthNames[m] = Lower(month)}
        m == CHOOSE x \in ms : TRUE
        d == DigitsToInt(day)
    IN IF ms # {} /\ Len(day) \in {1, 2} /\ d >= 1
          /\ d <= DaysInMonth(year, m)
       THEN <<year, m, d>>
       ELSE <<>>

\* One attempt of r'(\w+)\s+(\d+)\s+to\s+(\w+)\s+(\d+)' (re.IGNORECASE) at
\* position i; every repetition is greedy and none can give characters back.
MonthDayRangeAt(q, i) ==
    LET w1 == SpanWord(q, i)
        s1 == SpanSpace(q, w1)
        d1 == SpanDigit(q, s1)
        s2 == SpanSpace(q, d1)
        s3 == SpanSpace(q, s2 + 2)
        w2 == SpanWord(q, s3)
        s4 == SpanSpace(q, w2)
        d2 == SpanDigit(q, s4)
    IN IF /\ w1 > i /\ s1 > w1 /\ d1 > s1 /\ s2 > d1
          /\ MatchesAt(Lower(q), s2, <<"t","o">>)
          /\ s3 > s2 + 2 /\ w2 > s3 /\ s4 > w2 /\ d2 > s4
       THEN <<SubSeq(q, i, w1 - 1), SubSeq(q, s1, d1 - 1),
              SubSeq(q, s3, w2 - 1), SubSeq(q, s4, d2 - 1)>>
       ELSE <<>>

\* r'\d{4}-\d{2}-\d{2}' at position i
IsoDateAt(q, i) ==
    /\ i >= 1
    /\ i + 9 <= Len(q)
    /\ \A k \in 0..9 :
          IF k \in {4, 7} THEN q[i + k] = "-" ELSE IsDigit(q[i + k])

\* One attempt of r'(\d{4}-\d{2}-\d{2})\s+to\s+(\d{4}-\d{2}-\d{2})' at i
IsoRangeAt(q, i) ==
    LET s == SpanSpace(q, i + 10)
        e == SpanSpace(q, s + 2)
    IN IF /\ IsoDateAt(q, i) /\ s > i + 10 /\ MatchesAt(q, s, <<"t","o">>)
          /\ e > s + 2 /\ IsoDateAt(q, e)
       THEN <<SubSeq(q, i, i + 9), SubSeq(q, e, e + 9)>>
       ELSE <<>>

\* value, or otherwise when value is None (<<>>)
OrElse(value, otherwise) == IF value # <<>> THEN value ELSE otherwise

\* _extract_specific_dates lines 167-177: the groups of the month-day match
\* read by strptime with this year, as ISO texts; <<>> on the ValueError.
MonthDayDates(groups) ==
    LET start_date == strptime(groups[1], groups[2], Today[1])
        end_date == strptime(groups[3], groups[4], Today[1])
    IN IF start_date # <<>> /\ end_date # <<>>
       THEN <<isoformat(start_date), isoformat(end_date)>>
       ELSE <<>>

\* ParameterExtractor._extract_specific_dates: the leftmost match of the
\* month-day pattern, read by strptime; failing that, the leftmost match of
\* the ISO pattern, taken as written; else None (<<>>).
_extract_specific_dates(user_query) ==
    LET md == {i \in 1..Len(user_query) : MonthDayRangeAt(user_query,
        i) # <<>>}
        iso == {i \in 1..Len(user_query) : IsoRangeAt(user_query, i) # <<>>}
    IN OrElse(IF md # {}
              THEN MonthDayDates(MonthDayRangeAt(user_query, Leftmost(md)))
              ELSE <<>>,
              IF iso # {} THEN IsoRangeAt(user_query, Leftmost(iso)) ELSE <<>>)

\* ParameterExtractor._extract_dates
_extract_dates(user_query) ==
    LET query_lower == Lower(user_query)
        today == Today
        year_offset ==
            IF AnyIn(query_lower, {<<"l","a","s","t"," ","y","e","a","r">>,
                <<"p","r","e","v","i","o","u","s"," ","y","e","a",
                "r">>}) THEN -1
            ELSE IF AnyIn(query_lower, {<<"t","w","o"," ","y","e","a","r","s",
                " ","a","g","o">>, <<"2"," ","y","e","a","r","s"," ","a","g",
                "o">>}) THEN -2
            ELSE 0
        reference_date == <<today[1] + year_offset, today[2], today[3]>>
        yesterday == MinusDays(today, 1)
        first_of_this_month == <<reference_date[1], reference_date[2], 1>>
        last_of_prev_month == MinusDays(first_of_this_month, 1)
    IN IF Contains(query_lower, <<"y","e","s","t","e","r","d","a","y">>)
       THEN LET date == <<today[1] + year_offset, yesterday[2], yesterday[3]>>
            IN <<isoformat(date), isoformat(date)>>
       ELSE IF AnyIn(query_lower, {<<"l","a","s","t"," ","w","e","e","k">>,
           <<"p","a","s","t"," ","w","e","e","k">>})
       THEN <<isoformat(MinusDays(reference_date, 7)),
           isoformat(reference_date)>>
       ELSE IF Contains(query_lower, <<"t","h","i","s"," ","w","e","e","k">>)
       THEN <<isoformat(MinusDays(reference_date, Weekday(reference_date))),
              isoformat(reference_date)>>
       ELSE IF Contains(query_lower, <<"l","a","s","t"," ","m","o","n","t",
           "h">>)
       THEN <<isoformat(<<last_of_prev_month[1], last_of_prev_month[2], 1>>),
              isoformat(last_of_prev_month)>>
       ELSE IF Contains(query_lower, <<"t","h","i","s"," ","m","o","n","t",
           "h">>)
       THEN <<isoformat(first_of_this_month), isoformat(reference_date)>>
       ELSE IF Contains(query_lower, <<"t","h","i","s"," ","y","e","a","r">>)
       THEN <<isoformat(<<reference_date[1], 1, 1>>),
           isoformat(reference_date)>>
       ELSE OrElse(_extract_specific_dates(user_query),
                   <<isoformat(MinusDays(today, 30)), isoformat(today)>>)

\* ParameterExtractor._extract_aggregation (no aggregation keywords come
\* from the few-shot file); <<>> is None
_extract_aggregation(user_query) ==
    LET query_lower == Lower(user_query)
    IN IF AnyIn(query_lower, {<<"t","o","t","a","l">>, <<"s","u",
        "m">>}) THEN <<"S","U","M">>
       ELSE IF AnyIn(query_lower, {<<"a","v","e","r","a","g","e">>, <<"a","v",
           "g">>, <<"m","e","a","n">>}) THEN <<"A","V","G">>
       ELSE IF AnyIn(query_lower, {<<"c","o","u","n","t">>, <<"n","u","m","b",
           "e","r"," ","o","f">>, <<"h","o","w"," ","m","a","n","y">>})
       THEN <<"C","O","U","N","T">>
       ELSE IF AnyIn(query_lower, {<<"m","a","x">>, <<"m","a","x","i","m","u",
           "m">>, <<"h","i","g","h","e","s","t">>}) THEN <<"M","A","X">>
       ELSE IF AnyIn(query_lower, {<<"m","i","n">>, <<"m","i","n","i","m","u",
           "m">>, <<"l","o","w","e","s","t">>}) THEN <<"M","I","N">>
       ELSE <<>>

\* ParameterExtractor._extract_order_by; <<>> is None
_extract_order_by(user_query) ==
    LET query_lower == Lower(user_query)
    IN IF AnyIn(query_lower, {<<"r","e","v","e","n","u","e">>, <<"s","a","l",
        "e","s">>, <<"m","o","n","e","y">>, <<"d","o","l","l","a","r","s">>})
       THEN <<"t","o","t","a","l","_","r","e","v","e","n","u","e">>
       ELSE IF AnyIn(query_lower, {<<"q","u","a","n","t","i","t","y">>, <<"u",
           "n","i","t","s">>, <<"i","t","e","m","s">>})
       THEN <<"t","o","t","a","l","_","q","u","a","n","t","i","t","y">>
       ELSE IF Contains(query_lower, <<"t","r","a","n","s","a","c","t","i",
           "o","n">>) THEN <<"t","r","a","n","s","a","c","t","i","o","n","_",
           "c","o","u","n","t">>
       ELSE IF AnyIn(query_lower, {<<"t","o","p">>, <<"b","e","s","t">>,
           <<"h","i","g","h","e","s","t">>})
       THEN <<"t","o","t","a","l","_","r","e","v","e","n","u","e">>
       ELSE <<>>

\* One attempt of r'\b(?:top|best|first|leading)\s+(\d+)\b' (re.IGNORECASE)
\* at position i: the digits matched, or <<>>.
TopNAt(q, i) ==
    LET words == {w \in {<<"t","o","p">>, <<"b","e","s","t">>, <<"f","i","r",
        "s","t">>, <<"l","e","a","d","i","n","g">>} :
                     MatchesAt(Lower(q), i, w)}
        w == CHOOSE x \in words : TRUE
        s == SpanSpace(q, i + Len(w))
        d == SpanDigit(q, s)
    IN IF /\ words # {} /\ WordBoundaryAt(q, i)
          /\ s > i + Len(w) /\ d > s /\ WordBoundaryAt(q, d)
       THEN SubSeq(q, s, d - 1)
       ELSE <<>>

\* ParameterExtractor._extract_limit: None, or the int
_extract_limit(user_query) ==
    LET found == {i \in 1..Len(user_query) : TopNAt(user_query, i) # <<>>}
    IN IF found # {}
       THEN Some(DigitsToInt(
                TopNAt(user_query,
                    CHOOSE i \in found : \A j \in found : i <= j)))
       ELSE IF AnyIn(Lower(user_query), {<<"t","o","p">>, <<"b","e","s",
           "t">>}) THEN Some(5)
       ELSE None

\* ParameterExtractor.extract_parameters: the dict, as its (key, value) items
\* in insertion order; a value that is falsy is left out. An int value is
\* kept as the text str() gives it, which is how it is substituted.
extract_parameters(user_query, template_id) ==
    LET item(key, value) == IF value # <<>> THEN <<<<key, value>>>> ELSE <<>>
        date_items(dates) ==
            item(<<"s","t","a","r","t","_","d","a","t","e">>, dates[1])
            \o item(<<"e","n","d","_","d","a","t","e">>, dates[2])
        limit_item(limit) ==
            IF limit # None /\ limit[1] # 0
            THEN <<<<<<"l","i","m","i","t">>, IntToStr(limit[1])>>>> ELSE <<>>
    IN date_items(_extract_dates(user_query))
       \o item(<<"a","g","g","r","e","g","a","t","i","o","n">>,
               _extract_aggregation(user_query))
       \o item(<<"o","r","d","e","r","_","b","y">>,
               _extract_order_by(user_query))
       \o limit_item(_extract_limit(user_query))

\* query_sales lines 117-123: every "{key}" of the template text is replaced
\* by the extracted value as it stands.
\* (each replacement is computed once, as the value filled)
RECURSIVE FillTemplate(_, _)
FillTemplate(sql, parameters) ==
    IF parameters = <<>> THEN sql
    ELSE CHOOSE r \in
            {FillTemplate(filled, Tail(parameters)) :
                filled \in {Replace(sql, <<"{">> \o Head(parameters)[1] \o <<"}">>,
                                    Head(parameters)[2])}} : TRUE

\* The questions of the model.
\* sales 2024-10-01 to 2024-10-15
QSalesIsoRange ==
    <<"s","a","l","e","s"," ","2","0","2","4","-","1","0","-","0","1"," ","t",
        "o"," ","2","0","2","4","-","1","0","-","1","5">>
\* sales 2024-13-45 to 2024-10-15: the first date is not a calendar date
QSalesBadDate ==
    <<"s","a","l","e","s"," ","2","0","2","4","-","1","3","-","4","5"," ","t",
        "o"," ","2","0","2","4","-","1","0","-","1","5">>
\* Top 3 products October 1 to October 15
QTopProducts ==
    <<"T","o","p"," ","3"," ","p","r","o","d","u","c","t","s"," ","O","c","t",
        "o","b","e","r"," ","1"," ","t","o"," ","O","c","t","o","b","e","r",
        " ","1","5">>
\* revenue last week
QRevenueLastWeek ==
    <<"r","e","v","e","n","u","e"," ","l","a","s","t"," ","w","e","e","k">>
\* visitors yesterday
QVisitors ==
    <<"v","i","s","i","t","o","r","s"," ","y","e","s","t","e","r","d","a",
        "y">>
UserQueries ==
    {QSalesIsoRange, QSalesBadDate, QTopProducts, QRevenueLastWeek, QVisitors}

\* The pure steps on the questions of the model, tabulated once.
Intent == [q \in UserQueries |-> classify(q)]
\* (extract_parameters does not read its template_id argument)
Extracted == [q \in UserQueries |-> extract_parameters(q, NoTemplateId)]

\* The sql_structure texts of the templates, and the statements query_sales
\* makes of them for the questions of the model.
TemplateStatements == {SqlSalesByDateRange, SqlLimitHuge}
PipelineStatements ==
    {FillTemplate(sql, Extracted[q]) : q \in UserQueries, sql \in TemplateStatements}
Statements == ExecStatements \cup PipelineStatements

\* ------------------------------------------------------------ rate limiter
VARIABLES
    clock,        \* time.time()
    rate_limit,   \* RateLimiter.rate_limit
    query_times,  \* RateLimiter.query_times: caller -> deque of timestamps
    lock,         \* RateLimiter.lock: "free" or the thread holding it
    rl_pc,        \* position of each thread inside is_allowed
    rl_user,      \* user_id argument of the thread's call
    current_time, \* local current_time of the thread's call
    queries_in_window, \* local queries_in_window of the thread's call
    rl_result,    \* what the thread's last is_allowed call returned
    admitted      \* history: caller -> timestamps of its admitted calls

rlVars == <<clock, rate_limit, query_times, lock, rl_pc, rl_user,
            current_time, queries_in_window, rl_result, admitted>>

\* ------------------------------------------------- execution layer state
VARIABLES
    database_pool_size, \* Settings.database_pool_size: maxconn of the pool
    pool_used,     \* connections of the ThreadedConnectionPool handed out
    ex_pc,         \* position of each thread inside QueryExecutor.execute_query
    ex_sql,        \* the thread's sql: as passed in, then with its LIMIT clause
    ex_allowed,    \* the thread's allowed_tables argument
    ex_checks,     \* validations applied to and passed by the thread's sql
    ex_exc,        \* exception travelling up the thread's stack, or "none"
    ex_events,     \* what the thread's call did with its connection, in order
    ex_audit,      \* audit records the thread's call has written, in order
    ex_result      \* what the thread's last execute_query call returned

exVars == <<database_pool_size, pool_used, ex_pc, ex_sql, ex_allowed,
            ex_checks, ex_exc, ex_events, ex_audit, ex_result>>

\* ------------------------------------------------ template registry state
VARIABLES
    disk,        \* the *.json files of template_dir: file stem -> document
    templates,   \* TemplateLoader.templates: the dict lookups read
    lt_pc,       \* position of the thread running reload_templates/load_all_templates
    lt_mode,     \* "reload" or "load_all": which of the two it entered by
    lt_todo,     \* files of the glob that load_all_templates has not visited yet
    lt_new,      \* the local dict load_all_templates builds
    lt_pre,      \* history: the cache when the running load or reload began
    lt_failed,   \* history: a file of the running load or reload failed
    tl_read,     \* what each request thread's last load_template returned
    tl_seen      \* what each request thread's last registry read observed

tlVars == <<disk, templates, lt_pc, lt_mode, lt_todo, lt_new, lt_pre,
            lt_failed, tl_read, tl_seen>>

\* ---------------------------------------------------- request path state
VARIABLES
    rq_pc,          \* position of each thread's request inside its handler
    rq_path,        \* the handler of the thread's request
    rq_user,        \* user_id of the request
    rq_query,       \* the question of the request
    rq_template_id, \* the template id selected for the request
    rq_stages,      \* the handler's stages the request went through, in order
    rq_audit,       \* audit records the handler has written, in order
    rq_response     \* the response of the thread's last request

rqVars == <<rq_pc, rq_path, rq_user, rq_query, rq_template_id, rq_stages,
            rq_audit, rq_response>>

\* ------------------------------------------------- validator call state
VARIABLES
    fn_call,      \* the validator or enforcer call made last: name, arguments
    fn_ret        \* what that call returned

fnVars == <<fn_call, fn_ret>>

vars == <<rlVars, exVars, tlVars, rqVars, fnVars>>

window_seconds == 60

\* while user_times and current_time - user_times[0] > self.window_seconds:
\*     user_times.popleft()
RECURSIVE EvictExpired(_, _)
EvictExpired(user_times, now) ==
    IF user_times # <<>> /\ now - Head(user_times) > window_seconds
    THEN EvictExpired(Tail(user_times), now)
    ELSE user_times

\* Timestamps of u's admitted calls that are not older than the window at
\* time now (taken from the history, not from the deque).
Unexpired(u, now) ==
    {i \in DOMAIN admitted[u] : now - admitted[u][i] <= window_seconds}

NoResult == [kind |-> "none", remaining |-> 0, wait |-> 0, unexpired |-> 0]

RLInit ==
    /\ clock = 0
    /\ rate_limit \in 0..MaxRateLimit
    /\ query_times = <<>>
    /\ lock = "free"
    /\ rl_pc = [t \in Threads |-> "idle"]
    /\ rl_user = [t \in Threads |-> "u1"]
    /\ current_time = [t \in Threads |-> 0]
    /\ queries_in_window = [t \in Threads |-> 0]
    /\ rl_result = [t \in Threads |-> NoResult]
    /\ admitted = [u \in Callers |-> <<>>]

\* A request thread enters is_allowed(user_id) and reaches the with statement.
IsAllowedCall(t, u) ==
    /\ rl_pc[t] = "idle"
    /\ rl_pc' = [rl_pc EXCEPT ![t] = "waiting"]
    /\ rl_user' = [rl_user EXCEPT ![t] = u]
    /\ rl_result' = [rl_result EXCEPT ![t] = NoResult]
    /\ UNCHANGED <<clock, rate_limit, query_times, lock, current_time,
                   queries_in_window, admitted>>

\* No mutual exclusion: the with statement is entered whoever holds the lock.
LockNeverHeld(t) == TRUE

\* threading.Lock: the with statement is entered only while no thread holds
\* the lock.
LockAvailable(t) == lock = "free"

\* is_allowed, lines 49-57: take the lock, read the clock, fetch (and create)
\* the caller's deque, evict, count.
IsAllowedCount(t) ==
    /\ rl_pc[t] = "waiting"
    /\ LockAvailable(t)
    /\ lock' = t
    /\ LET u == rl_user[t]
           old == IF u \in DOMAIN query_times THEN query_times[u] ELSE <<>>
           kept == EvictExpired(old, clock)
       IN /\ current_time' = [current_time EXCEPT ![t] = clock]
          /\ query_times' = [v \in (DOMAIN query_times) \cup {u} |->
                                IF v = u THEN kept ELSE query_times[v]]
          /\ queries_in_window' = [queries_in_window EXCEPT ![t] = Len(kept)]
    /\ rl_pc' = [rl_pc EXCEPT ![t] = "counted"]
    /\ UNCHANGED <<clock, rate_limit, rl_user, rl_result, admitted>>

\* int(self.window_seconds - (current_time - oldest_time)) + 1
WaitSeconds(now, oldest_time) == (window_seconds - (now - oldest_time)) + 1

\* Off by one: the cap is compared with > instead of >=.
LimitExceededOffByOne(n) == n > rate_limit

\* if queries_in_window >= self.rate_limit
LimitExceeded(n) == n >= rate_limit

\* is_allowed, lines 60-83 and the release of the lock on leaving the with
\* block: reject (or raise IndexError on user_times[0] of an empty deque),
\* or append the timestamp and admit.
IsAllowedDecide(t) ==
    /\ rl_pc[t] = "counted"
    /\ LET u == rl_user[t]
           user_times == query_times[u]
           seen == Cardinality(Unexpired(u, current_time[t]))
       IN IF LimitExceeded(queries_in_window[t])
          THEN /\ rl_result' = [rl_result EXCEPT ![t] =
                    IF user_times = <<>>
                    THEN [kind |-> "raise", remaining |-> 0, wait |-> 0,
                          unexpired |-> seen]
                    ELSE [kind |-> "reject", remaining |-> 0,
                          wait |-> WaitSeconds(current_time[t], Head(user_times)),
                          unexpired |-> seen]]
               /\ UNCHANGED <<query_times, admitted>>
          ELSE /\ query_times' = [query_times EXCEPT
                                    ![u] = Append(@, current_time[t])]
               /\ admitted' = [admitted EXCEPT ![u] = Append(@, current_time[t])]
               /\ rl_result' = [rl_result EXCEPT ![t] =
                    [kind |-> "admit",
                     remaining |-> rate_limit - (Len(user_times) + 1),
                     wait |-> 0, unexpired |-> seen]]
    /\ lock' = "free"
    /\ rl_pc' = [rl_pc EXCEPT ![t] = "idle"]
    /\ current_time' = [current_time EXCEPT ![t] = 0]
    /\ queries_in_window' = [queries_in_window EXCEPT ![t] = 0]
    /\ UNCHANGED <<clock, rate_limit, rl_user>>

\* get_user_status reading self.query_times[user_id]: the defaultdict then
\* creates the entry of a caller it does not hold.
GetUserStatusCreating(u) ==
    /\ lock = "free"
    /\ query_times' =
          [v \in (DOMAIN query_times) \cup {u} |->
              IF v \in DOMAIN query_times
              THEN EvictExpired(query_times[v], clock) ELSE <<>>]
    /\ UNCHANGED <<clock, rate_limit, lock, rl_pc, rl_user, current_time,
                   queries_in_window, rl_result, admitted>>

\* get_user_status, lines 106-122, the whole body under the lock: evicts in
\* place in an existing deque, never creates an entry.
GetUserStatus(u) ==
    /\ lock = "free"
    /\ u \in DOMAIN query_times
    /\ query_times' = [query_times EXCEPT ![u] = EvictExpired(@, clock)]
    /\ UNCHANGED <<clock, rate_limit, lock, rl_pc, rl_user, current_time,
                   queries_in_window, rl_result, admitted>>

\* A sweep that drops every caller, whatever its window holds.
CleanupEveryCaller ==
    /\ lock = "free"
    /\ query_times' = <<>>
    /\ UNCHANGED <<clock, rate_limit, lock, rl_pc, rl_user, current_time,
                   queries_in_window, rl_result, admitted>>

\* cleanup_expired, lines 130-145, the whole body under the lock.
CleanupExpired ==
    /\ lock = "free"
    /\ LET keep == {u \in DOMAIN query_times :
                       EvictExpired(query_times[u], clock) # <<>>}
       IN query_times' = [u \in keep |-> EvictExpired(query_times[u], clock)]
    /\ UNCHANGED <<clock, rate_limit, lock, rl_pc, rl_user, current_time,
                   queries_in_window, rl_result, admitted>>

\* time.time() advances.
Tick ==
    /\ \E d \in ClockSteps :
          /\ clock + d <= MaxTime
          /\ clock' = clock + d
    /\ UNCHANGED <<rate_limit, query_times, lock, rl_pc, rl_user, current_time,
                   queries_in_window, rl_result, admitted>>

RLNext ==
    \/ \E t \in Threads, u \in Callers : IsAllowedCall(t, u)
    \/ \E t \in Threads : IsAllowedCount(t)
    \/ \E t \in Threads : IsAllowedDecide(t)
    \/ \E u \in Callers : GetUserStatus(u)
    \/ CleanupExpired
    \/ Tick

\* --------------------------------------------------------- execution layer
\* QueryExecutor.execute_query over DatabaseConnectionManager.execute_query
\* and get_connection, one step per database or pool interaction.

NoOutcome == [kind |-> "none", error |-> Accepted, cause |-> "none"]

\* The allowed_tables arguments execute_query is called with.
AllowedTablesInputs ==
    {<<>>, <<TSalesTransactions>>, <<TUsers>>,
     <<TSalesTransactions, TWebsiteVisits>>}

\* The validators and the limit injection are pure: their results on the
\* statements of the model are tabulated once.
StructuralVerdict == [sql \in Statements |-> SQLValidator_validate_query(sql)]
WhitelistVerdict ==
    [sql \in Statements |->
        [a \in AllowedTablesInputs \cup {<<TWebsiteVisits>>} |->
            validate_tables(sql, a)]]
WithLimit == [sql \in Statements |-> inject_limit_clause(sql, None)]
\* sql.strip().upper().startswith("SELECT") on the statements that reach the
\* connection manager
StartsWithSelect ==
    [sql \in Range(WithLimit) |-> StartsWith(Upper(Strip(sql)), KwSelect)]

EXInit ==
    /\ database_pool_size \in 1..MaxPoolSize
    /\ pool_used = 0
    /\ ex_pc = [t \in Threads |-> "idle"]
    /\ ex_sql = [t \in Threads |-> <<>>]
    /\ ex_allowed = [t \in Threads |-> <<>>]
    /\ ex_checks = [t \in Threads |-> {}]
    /\ ex_exc = [t \in Threads |-> "none"]
    /\ ex_events = [t \in Threads |-> <<>>]
    /\ ex_audit = [t \in Threads |-> <<>>]
    /\ ex_result = [t \in Threads |-> NoOutcome]

\* if allowed_tables: the table whitelist is consulted only for a non-empty
\* list (None and [] are both falsy and both written <<>>).
WhitelistApplies(allowed_tables) == allowed_tables # <<>>

\* QueryExecutor.execute_query, steps 1-3 (lines 114-139): structural
\* validation, table whitelist validation, LIMIT injection. A rejection is
\* logged and returned; otherwise the call goes on to the connection manager.
ExecuteQuery_Validate(t, sql, allowed_tables) ==
    /\ ex_pc[t] = "idle"
    /\ ex_allowed' = [ex_allowed EXCEPT ![t] = allowed_tables]
    /\ ex_exc' = [ex_exc EXCEPT ![t] = "none"]
    /\ ex_events' = [ex_events EXCEPT ![t] = <<>>]
    /\ LET structural == StructuralVerdict[sql]
           whitelist == WhitelistVerdict[sql][allowed_tables]
       IN IF ~structural.valid
          THEN /\ ex_audit' = [ex_audit EXCEPT ![t] =
                                  <<"validation_failure:sql_keywords">>]
               /\ ex_result' = [ex_result EXCEPT ![t] =
                    [kind |-> "rejected", error |-> structural,
                     cause |-> "sql_keywords"]]
               /\ ex_checks' = [ex_checks EXCEPT ![t] = {}]
               /\ ex_sql' = [ex_sql EXCEPT ![t] = sql]
               /\ UNCHANGED ex_pc
          ELSE IF WhitelistApplies(allowed_tables) /\ ~whitelist.valid
          THEN /\ ex_audit' = [ex_audit EXCEPT ![t] =
                                  <<"validation_failure:table_whitelist">>]
               /\ ex_result' = [ex_result EXCEPT ![t] =
                    [kind |-> "rejected", error |-> whitelist,
                     cause |-> "table_whitelist"]]
               /\ ex_checks' = [ex_checks EXCEPT ![t] = {"structural"}]
               /\ ex_sql' = [ex_sql EXCEPT ![t] = sql]
               /\ UNCHANGED ex_pc
          ELSE /\ ex_audit' = [ex_audit EXCEPT ![t] = <<>>]
               /\ ex_result' = [ex_result EXCEPT ![t] = NoOutcome]
               /\ ex_checks' = [ex_checks EXCEPT ![t] =
                    IF WhitelistApplies(allowed_tables)
                    THEN {"structural", "whitelist"} ELSE {"structural"}]
               /\ ex_sql' = [ex_sql EXCEPT ![t] = WithLimit[sql]]
               /\ ex_pc' = [ex_pc EXCEPT ![t] = "connecting"]
    /\ UNCHANGED <<database_pool_size, pool_used>>

\* ThreadedConnectionPool.getconn (psycopg2): with maxconn connections
\* handed out it raises PoolError("connection pool exhausted"); it does not
\* wait for one to come back.
PoolExhausted == pool_used >= database_pool_size

\* DatabaseConnectionManager.execute_query lines 101-108 and get_connection
\* lines 55-60: the SELECT check, then conn = self.pool.getconn().
GetConnection(t) ==
    /\ ex_pc[t] = "connecting"
    /\ IF ~StartsWithSelect[ex_sql[t]]
       THEN /\ ex_exc' = [ex_exc EXCEPT ![t] = "ValueError"]
            /\ ex_pc' = [ex_pc EXCEPT ![t] = "raised"]
            /\ UNCHANGED <<pool_used, ex_events>>
       ELSE IF PoolExhausted
       THEN /\ ex_exc' = [ex_exc EXCEPT ![t] = "PoolError"]
            /\ ex_pc' = [ex_pc EXCEPT ![t] = "raised"]
            /\ UNCHANGED <<pool_used, ex_events>>
       ELSE /\ pool_used' = pool_used + 1
            /\ ex_events' = [ex_events EXCEPT ![t] = Append(@, "getconn")]
            /\ ex_pc' = [ex_pc EXCEPT ![t] = "acquired"]
            /\ UNCHANGED ex_exc
    /\ UNCHANGED <<database_pool_size, ex_sql, ex_allowed, ex_checks,
                   ex_audit, ex_result>>

\* set_session outside the try block: its exception leaves get_connection
\* without entering the finally block.
AfterSetSessionFailureSkipsFinally == "raised"

\* get_connection: set_session stands inside the try block, so when it raises
\* the finally block runs next.
AfterSetSessionFailure == "finally"

\* get_connection line 62: conn.set_session(readonly=True, autocommit=False)
\* succeeds and the connection is yielded, or raises.
SetSession(t) ==
    /\ ex_pc[t] = "acquired"
    /\ ex_events' = [ex_events EXCEPT ![t] = Append(@, "set_session")]
    /\ \/ /\ ex_pc' = [ex_pc EXCEPT ![t] = "yielded"]
          /\ UNCHANGED ex_exc
       \/ /\ ex_pc' = [ex_pc EXCEPT ![t] = AfterSetSessionFailure]
          /\ ex_exc' = [ex_exc EXCEPT ![t] = "SessionError"]
    /\ UNCHANGED <<database_pool_size, pool_used, ex_sql, ex_allowed,
                   ex_checks, ex_audit, ex_result>>

\* What the database does with a statement.
DbOutcomes == {"rows", "cancelled", "dberror"}

\* The except clauses merged: QueryCanceled is wrapped like any other error.
ManagerRaisesGeneric(outcome) ==
    IF outcome = "rows" THEN "none" ELSE "Exception"

\* DatabaseConnectionManager.execute_query lines 117-120: QueryCanceled
\* becomes TimeoutError, every other exception becomes Exception.
ManagerRaises(outcome) ==
    CASE outcome = "rows" -> "none"
      [] outcome = "cancelled" -> "TimeoutError"
      [] OTHER -> "Exception"

\* DatabaseConnectionManager.execute_query lines 108-120: the statement runs
\* on the yielded connection (cursor.execute(sql)) and returns rows, is
\* cancelled by the statement timeout, or fails; leaving the with block enters
\* get_connection's finally.
RunStatement(t) ==
    /\ ex_pc[t] = "yielded"
    /\ \E outcome \in DbOutcomes :
          /\ ex_events' = [ex_events EXCEPT ![t] = Append(@, outcome)]
          /\ ex_exc' = [ex_exc EXCEPT ![t] = ManagerRaises(outcome)]
    /\ ex_pc' = [ex_pc EXCEPT ![t] = "finally"]
    /\ UNCHANGED <<database_pool_size, pool_used, ex_sql, ex_allowed,
                   ex_checks, ex_audit, ex_result>>

\* get_connection lines 64-69: if conn: conn.rollback(), whose own failure is
\* swallowed.
Rollback(t) ==
    /\ ex_pc[t] = "finally"
    /\ ex_events' = [ex_events EXCEPT ![t] = Append(@, "rollback")]
    /\ ex_pc' = [ex_pc EXCEPT ![t] = "rolled_back"]
    /\ UNCHANGED <<database_pool_size, pool_used, ex_sql, ex_allowed,
                   ex_checks, ex_exc, ex_audit, ex_result>>

\* get_connection line 70: self.pool.putconn(conn); the pending exception,
\* if any, then leaves get_connection.
PutConnection(t) ==
    /\ ex_pc[t] = "rolled_back"
    /\ pool_used' = pool_used - 1
    /\ ex_events' = [ex_events EXCEPT ![t] = Append(@, "putconn")]
    /\ ex_pc' = [ex_pc EXCEPT ![t] =
                    IF ex_exc[t] = "none" THEN "returned" ELSE "raised"]
    /\ UNCHANGED <<database_pool_size, ex_sql, ex_allowed, ex_checks,
                   ex_exc, ex_audit, ex_result>>

\* QueryExecutor.execute_query lines 150-198: the result is logged and
\* returned; except TimeoutError gives the timeout failure, except Exception
\* the generic one.
ExecutorOutcome(exc) ==
    CASE exc = "none" -> "success"
      [] exc = "TimeoutError" -> "timeout"
      [] OTHER -> "failed"

\* The error_message execute_query returns with a failure (lines 124, 136,
\* 167, 183): the validator's message, which lists the keywords or tables it
\* found, or "Query timeout: " / "Query execution failed: " followed by
\* str(e) of the exception that reached it.
error_message(result) ==
    CASE result.kind = "rejected" ->
            <<result.error.check, result.error.names>>
      [] result.kind = "timeout" -> <<"Query timeout", result.cause>>
      [] result.kind = "failed" -> <<"Query execution failed", result.cause>>
      [] OTHER -> <<"">>

ExecuteQuery_Return(t) ==
    /\ ex_pc[t] \in {"returned", "raised"}
    /\ ex_result' = [ex_result EXCEPT ![t] =
          [kind |-> ExecutorOutcome(ex_exc[t]), error |-> Accepted,
           cause |-> ex_exc[t]]]
    /\ ex_audit' = [ex_audit EXCEPT ![t] = Append(@,
          IF ex_exc[t] = "none" THEN "query_execution:success"
          ELSE "query_execution:failure")]
    /\ ex_pc' = [ex_pc EXCEPT ![t] = "idle"]
    /\ UNCHANGED <<database_pool_size, pool_used, ex_sql, ex_allowed,
                   ex_checks, ex_exc, ex_events>>

EXNext ==
    \/ \E t \in Threads, sql \in ExecStatements, a \in AllowedTablesInputs :
          ExecuteQuery_Validate(t, sql, a)
    \/ \E t \in Threads : GetConnection(t)
    \/ \E t \in Threads : SetSession(t)
    \/ \E t \in Threads : RunStatement(t)
    \/ \E t \in Threads : Rollback(t)
    \/ \E t \in Threads : PutConnection(t)
    \/ \E t \in Threads : ExecuteQuery_Return(t)

\* -------------------------------------------------------- template registry
\* TemplateLoader. A JSON document is kept as what the loader and
\* validate_template read of it: whether json.load parses it, its keys, its
\* sql_structure and its whitelisted_tables.
Doc(kind, keys, sql_structure, tables) ==
    [kind |-> kind, keys |-> keys, sql_structure |-> sql_structure,
     whitelisted_tables |-> tables]

\* required_fields of validate_template, in order
required_fields ==
    <<"template_id", "description", "sql_structure", "parameters",
      "whitelisted_tables", "chart_type">>

\* No file, or the None a lookup returns.
NoDoc == Doc("none", {}, <<>>, <<>>)
\* A file json.load cannot parse.
DocCorrupt == Doc("corrupt", {}, <<>>, <<>>)
\* template_schema.json: a JSON-schema document, not a template.
DocSchema == Doc("json", {"$schema", "type", "required", "properties"}, <<>>, <<>>)
\* Scenario A's template.
DocSalesByDate ==
    Doc("json", Range(required_fields) \cup {"category"}, SqlSalesByDateRange,
        <<TSalesTransactions>>)
\* A valid template over website_visits.
DocVisits ==
    Doc("json", Range(required_fields), SqlLimitHuge, <<TWebsiteVisits>>)
\* chart_type is missing.
DocNoChartType ==
    Doc("json", Range(required_fields) \ {"chart_type"}, SqlSalesByDate,
        <<TSalesTransactions>>)
\* sql_structure does not start with SELECT.
DocNotSelect ==
    Doc("json", Range(required_fields), SqlDelete, <<TSalesTransactions>>)
\* A declared table is outside the global whitelist.
DocUsersTable ==
    Doc("json", Range(required_fields), SqlUsers, <<TUsers>>)

\* The file stems of template_dir and the documents each may hold.
TemplateIds == {"sales_by_date_range", "top_products"}
SchemaFile == "template_schema"
DiskFiles == TemplateIds \cup {SchemaFile}
DocsFor(f) ==
    CASE f = "sales_by_date_range" -> {NoDoc, DocSalesByDate, DocCorrupt}
      [] f = "top_products" ->
            {DocVisits, DocNoChartType, DocNotSelect, DocUsersTable}
      [] OTHER -> {DocSchema}

\* TemplateLoader.validate_template
validate_template(template) ==
    LET missing == {i \in DOMAIN required_fields :
                       required_fields[i] \notin template.keys}
        tables == IF "whitelisted_tables" \in template.keys
                  THEN template.whitelisted_tables ELSE <<>>
        bad == {i \in DOMAIN tables : tables[i] \notin whitelisted_tables}
    IN IF missing # {}
       THEN Rejected("missing_field", {})
       ELSE IF ~StartsWith(Upper(Strip(template.sql_structure)), KwSelect)
       THEN Rejected("not_select", {})
       ELSE IF bad # {}
       THEN Rejected("global_whitelist",
                     {tables[CHOOSE i \in bad : \A j \in bad : i <= j]})
       ELSE Accepted

\* validate_template on the documents of the model, tabulated once.
SchemaValid ==
    [d \in UNION {DocsFor(f) : f \in DiskFiles} \cup {NoDoc} |->
        d.kind = "json" /\ validate_template(d).valid]

\* if template: a parsed document is truthy unless it is empty.
Truthy(d) == d.kind = "json" /\ d.keys # {}

TLInit ==
    /\ disk = [f \in DiskFiles |->
                 CASE f = "sales_by_date_range" -> DocSalesByDate
                   [] f = "top_products" -> DocVisits
                   [] OTHER -> DocSchema]
    /\ templates = <<>>
    /\ lt_pc = "idle"
    /\ lt_mode = "load_all"
    /\ lt_todo = {}
    /\ lt_new = <<>>
    /\ lt_pre = <<>>
    /\ lt_failed = FALSE
    /\ tl_read = [t \in Threads |-> NoDoc]
    /\ tl_seen = [t \in Threads |-> {}]

\* dict[key] = value
Put(dict, key, value) ==
    [k \in (DOMAIN dict) \cup {key} |-> IF k = key THEN value ELSE dict[k]]

\* TemplateLoader.load_template: its return value and the cache it leaves.
\* A cached entry is returned as is; a missing or unparseable file gives None;
\* a parsed document is cached and returned (validate_template is not called).
LoadTemplateResult(cache, template_id) ==
    IF template_id \in DOMAIN cache THEN cache[template_id]
    ELSE IF disk[template_id].kind = "json" THEN disk[template_id]
    ELSE NoDoc

LoadTemplateCache(cache, template_id) ==
    IF template_id \notin DOMAIN cache /\ disk[template_id].kind = "json"
    THEN Put(cache, template_id, disk[template_id])
    ELSE cache

\* The registry a reload builds from the files on disk when nothing else
\* touches the cache meanwhile.
FullRegistry ==
    [f \in {g \in TemplateIds : Truthy(disk[g])} |-> disk[f]]

\* A request thread calls load_template(template_id).
LoadTemplate(t, template_id) ==
    /\ tl_read' = [tl_read EXCEPT ![t] = LoadTemplateResult(templates, template_id)]
    /\ templates' = LoadTemplateCache(templates, template_id)
    /\ UNCHANGED <<disk, lt_pc, lt_mode, lt_todo, lt_new, lt_pre, lt_failed,
                   tl_seen>>

\* A reload_templates call is between its clear() and its return.
ReloadRunning == lt_mode = "reload" /\ lt_pc # "idle"

\* A request thread reads the registry: get_template_ids returns the keys of
\* self.templates as they are at that moment (get_templates_by_category and
\* search_templates iterate over the same dict).
GetTemplateIds(t) ==
    /\ tl_seen' = [tl_seen EXCEPT ![t] = DOMAIN templates]
    /\ UNCHANGED <<disk, templates, lt_pc, lt_mode, lt_todo, lt_new, lt_pre,
                   lt_failed, tl_read>>

\* reload_templates line 154: self.templates.clear()
ReloadClear ==
    /\ lt_pc = "idle"
    /\ lt_pre' = templates
    /\ templates' = <<>>
    /\ lt_mode' = "reload"
    /\ lt_pc' = "cleared"
    /\ lt_failed' = FALSE
    /\ UNCHANGED <<disk, lt_todo, lt_new, tl_read, tl_seen>>

\* load_all_templates lines 73-77: templates = {} and the glob of *.json,
\* entered from reload_templates or called directly.
LoadAllBegin ==
    /\ \/ lt_pc = "cleared" /\ UNCHANGED <<lt_mode, lt_pre, lt_failed>>
       \/ /\ lt_pc = "idle"
          /\ lt_mode' = "load_all"
          /\ lt_pre' = templates
          /\ lt_failed' = FALSE
    /\ lt_todo' = {f \in DiskFiles : disk[f].kind # "none"}
    /\ lt_new' = <<>>
    /\ lt_pc' = "loading"
    /\ UNCHANGED <<disk, templates, tl_read, tl_seen>>

\* load_all_templates lines 77-85, one file of the glob: the schema file is
\* skipped, any other stem goes through load_template and, if the result is
\* truthy, into the local dict.
LoadAllStep ==
    /\ lt_pc = "loading"
    /\ \E f \in lt_todo :
          /\ lt_todo' = lt_todo \ {f}
          /\ IF f = SchemaFile
             THEN UNCHANGED <<templates, lt_new, lt_failed>>
             ELSE LET template == LoadTemplateResult(templates, f)
                  IN /\ templates' = LoadTemplateCache(templates, f)
                     /\ lt_new' = IF Truthy(template)
                                  THEN Put(lt_new, f, template) ELSE lt_new
                     /\ lt_failed' = (lt_failed \/ ~SchemaValid[template])
    /\ UNCHANGED <<disk, lt_pc, lt_mode, lt_pre, tl_read, tl_seen>>

\* load_all_templates lines 87-88: self.templates = templates; return.
LoadAllFinish ==
    /\ lt_pc = "loading"
    /\ lt_todo = {}
    /\ templates' = lt_new
    /\ lt_pc' = "idle"
    /\ lt_new' = <<>>
    /\ lt_pre' = <<>>
    /\ lt_failed' = FALSE
    /\ UNCHANGED <<disk, lt_mode, lt_todo, tl_read, tl_seen>>

\* The template files change on disk (a deployment of the template
\* repository), between two runs of the loader.
DiskWrite(f, d) ==
    /\ lt_pc = "idle"
    /\ d \in DocsFor(f)
    /\ disk[f] # d
    /\ disk' = [disk EXCEPT ![f] = d]
    /\ UNCHANGED <<templates, lt_pc, lt_mode, lt_todo, lt_new, lt_pre,
                   lt_failed, tl_read, tl_seen>>

\* The request threads that look templates up while the loader thread runs.
Readers == {"t1"}

TLNext ==
    \/ \E t \in Readers, id \in DiskFiles : LoadTemplate(t, id)
    \/ \E t \in Readers : GetTemplateIds(t)
    \/ ReloadClear
    \/ LoadAllBegin
    \/ LoadAllStep
    \/ LoadAllFinish
    \/ \E f \in DiskFiles : \E d \in DocsFor(f) : DiskWrite(f, d)

\* ------------------------------------------------------------ request paths
\* QueryPipeline.process_query, a synchronous function called on a worker
\* thread, and the query_sales endpoint, an async function without an await:
\* its requests run one after the other on the event loop thread.

EventLoop == "t1"

\* The template ids the few-shot examples name: what select_template can
\* return besides None.
ExampleTemplateIds == TemplateIds

NoResponse == [success |-> FALSE, error |-> "none"]
Failure(error) == [success |-> FALSE, error |-> error]
Success == [success |-> TRUE, error |-> "none"]

\* The handler returns: its locals are gone.
Returned(t) ==
    /\ rq_user' = [rq_user EXCEPT ![t] = "u1"]
    /\ rq_query' = [rq_query EXCEPT ![t] = <<>>]
    /\ rq_template_id' = [rq_template_id EXCEPT ![t] = NoTemplateId]

RQInit ==
    /\ rq_pc = [t \in Threads |-> "idle"]
    /\ rq_path = [t \in Threads |-> "none"]
    /\ rq_user = [t \in Threads |-> "u1"]
    /\ rq_query = [t \in Threads |-> <<>>]
    /\ rq_template_id = [t \in Threads |-> NoTemplateId]
    /\ rq_stages = [t \in Threads |-> <<>>]
    /\ rq_audit = [t \in Threads |-> <<>>]
    /\ rq_response = [t \in Threads |-> NoResponse]

\* QueryPipeline._load_template: return None
_load_template(template_id) == NoDoc

\* A request enters process_query(user_query, user_id) and calls
\* rate_limiter.is_allowed(user_id) (line 70).
ProcessQuery_Call(t, u, q) ==
    /\ rq_pc[t] = "idle"
    /\ ex_pc[t] = "idle"
    /\ IsAllowedCall(t, u)
    /\ rq_pc' = [rq_pc EXCEPT ![t] = "rate_check"]
    /\ rq_path' = [rq_path EXCEPT ![t] = "process_query"]
    /\ rq_user' = [rq_user EXCEPT ![t] = u]
    /\ rq_query' = [rq_query EXCEPT ![t] = q]
    /\ rq_template_id' = [rq_template_id EXCEPT ![t] = NoTemplateId]
    /\ rq_stages' = [rq_stages EXCEPT ![t] = <<>>]
    /\ rq_audit' = [rq_audit EXCEPT ![t] = <<>>]
    /\ rq_response' = [rq_response EXCEPT ![t] = NoResponse]
    /\ UNCHANGED <<exVars, tlVars>>

\* process_query lines 70-110, once is_allowed has returned or raised: a
\* rejection is returned; otherwise the intent is classified and a template
\* selected. _select_template returns None for every question and
\* _load_template None for every id, so the call returns at line 85 (and would
\* at line 107); lines 112-162 have no execution.
ProcessQuery_Continue(t) ==
    /\ rq_pc[t] = "rate_check"
    /\ rl_pc[t] = "idle"
    /\ rl_result[t].kind # "none"
    /\ LET intent == _classify_intent(rq_query[t])
           template_id == _select_template(rq_query[t], intent)
       IN IF rl_result[t].kind = "raise"
          THEN /\ rq_response' = [rq_response EXCEPT ![t] = Failure("IndexError")]
               /\ rq_stages' = [rq_stages EXCEPT ![t] = <<"rate_check:raised">>]
          ELSE IF rl_result[t].kind = "reject"
          THEN /\ rq_response' = [rq_response EXCEPT ![t] = Failure("rate_limited")]
               /\ rq_stages' = [rq_stages EXCEPT ![t] = <<"rate_check:rejected">>]
          ELSE IF template_id = NoTemplateId
          THEN /\ rq_response' = [rq_response EXCEPT ![t] = Failure("no_template")]
               /\ rq_stages' = [rq_stages EXCEPT ![t] = <<"rate_check">>]
          ELSE /\ _load_template(template_id) = NoDoc
               /\ rq_response' = [rq_response EXCEPT ![t] =
                                     Failure("template_not_found")]
               /\ rq_stages' = [rq_stages EXCEPT ![t] =
                                   <<"rate_check", "template_load:failed">>]
    /\ rq_pc' = [rq_pc EXCEPT ![t] = "idle"]
    /\ Returned(t)
    /\ UNCHANGED <<rq_path, rq_audit>>
    /\ UNCHANGED <<rlVars, exVars, tlVars>>

\* query_sales lines 65-100: the intent is classified and a template selected
\* (TemplateSelector.select_template returns the template id of the few-shot
\* example most similar to the question, or None below the confidence
\* threshold); the selection is logged.
QuerySales_Select(u, q) ==
    LET t == EventLoop
    IN /\ rq_pc[t] = "idle"
       /\ ex_pc[t] = "idle"
       /\ rq_path' = [rq_path EXCEPT ![t] = "query_sales"]
       /\ rq_stages' = [rq_stages EXCEPT ![t] = <<>>]
       /\ IF Intent[q] # "sales"
          THEN /\ rq_response' = [rq_response EXCEPT ![t] =
                                     Failure("template_not_found")]
               /\ rq_audit' = [rq_audit EXCEPT ![t] = <<>>]
               /\ Returned(t)
               /\ UNCHANGED rq_pc
          ELSE \E template_id \in ExampleTemplateIds \cup {NoTemplateId} :
                  IF template_id = NoTemplateId
                  THEN /\ rq_response' = [rq_response EXCEPT ![t] =
                                             Failure("template_not_found")]
                       /\ rq_audit' = [rq_audit EXCEPT ![t] = <<>>]
                       /\ Returned(t)
                       /\ UNCHANGED rq_pc
                  ELSE /\ rq_response' = [rq_response EXCEPT ![t] = NoResponse]
                       /\ rq_audit' = [rq_audit EXCEPT ![t] =
                                          <<"template_selection">>]
                       /\ rq_user' = [rq_user EXCEPT ![t] = u]
                       /\ rq_query' = [rq_query EXCEPT ![t] = q]
                       /\ rq_template_id' =
                             [rq_template_id EXCEPT ![t] = template_id]
                       /\ rq_pc' = [rq_pc EXCEPT ![t] = "selected"]
       /\ UNCHANGED <<rlVars, exVars, tlVars>>

\* query_sales lines 102-108: template_loader.load_template(template_id)
QuerySales_Load ==
    LET t == EventLoop
        template == LoadTemplateResult(templates, rq_template_id[t])
    IN /\ rq_pc[t] = "selected"
       /\ templates' = LoadTemplateCache(templates, rq_template_id[t])
       /\ tl_read' = [tl_read EXCEPT ![t] = template]
       /\ IF ~Truthy(template)
          THEN /\ rq_response' = [rq_response EXCEPT ![t] =
                                     Failure("template_configuration_error")]
               /\ rq_stages' = [rq_stages EXCEPT ![t] =
                                   Append(@, "template_load:failed")]
               /\ rq_pc' = [rq_pc EXCEPT ![t] = "idle"]
               /\ Returned(t)
          ELSE /\ rq_stages' = [rq_stages EXCEPT ![t] = Append(@, "template_load")]
               /\ rq_pc' = [rq_pc EXCEPT ![t] = "loaded"]
               /\ UNCHANGED <<rq_response, rq_user, rq_query, rq_template_id>>
       /\ UNCHANGED <<rq_path, rq_audit>>
       /\ UNCHANGED <<disk, lt_pc, lt_mode, lt_todo, lt_new, lt_pre, lt_failed,
                      tl_seen>>
       /\ UNCHANGED <<rlVars, exVars>>

\* query_sales lines 110-135: the parameters are extracted from the question,
\* substituted into the template text, and query_executor.execute_query is
\* called with the result and the template's whitelisted_tables.
QuerySales_Execute ==
    LET t == EventLoop
        template == tl_read[t]
        parameters == Extracted[rq_query[t]]
        sql == FillTemplate(
                  IF "sql_structure" \in template.keys
                  THEN template.sql_structure ELSE <<>>,
                  parameters)
        allowed_tables == IF "whitelisted_tables" \in template.keys
                          THEN template.whitelisted_tables ELSE <<>>
    IN /\ rq_pc[t] = "loaded"
       /\ ExecuteQuery_Validate(t, sql, allowed_tables)
       /\ rq_stages' = [rq_stages EXCEPT ![t] = Append(@, "substitution")]
       /\ rq_pc' = [rq_pc EXCEPT ![t] = "executing"]
       /\ UNCHANGED <<rq_path, rq_user, rq_query, rq_template_id, rq_audit,
                      rq_response>>
       /\ UNCHANGED <<rlVars, tlVars>>

\* query_sales lines 137-178: the executor's failure is passed on, or its
\* rows are formatted and returned.
QuerySales_Return ==
    LET t == EventLoop
    IN /\ rq_pc[t] = "executing"
       /\ ex_pc[t] = "idle"
       /\ ex_result[t].kind # "none"
       /\ rq_response' = [rq_response EXCEPT ![t] =
             IF ex_result[t].kind = "success" THEN Success
             ELSE Failure(ex_result[t].kind)]
       /\ rq_pc' = [rq_pc EXCEPT ![t] = "idle"]
       /\ Returned(t)
       /\ UNCHANGED <<rq_path, rq_stages, rq_audit>>
       /\ UNCHANGED <<rlVars, exVars, tlVars>>

PLNext ==
    \/ \E t \in Threads \ {EventLoop}, u \in Callers, q \in UserQueries :
          ProcessQuery_Call(t, u, q)
    \/ \E t \in Threads : ProcessQuery_Continue(t)
    \/ \E u \in Callers, q \in UserQueries : QuerySales_Select(u, q)
    \/ QuerySales_Load
    \/ QuerySales_Execute
    \/ QuerySales_Return
    \/ \E t \in Threads :
          IsAllowedCount(t) /\ UNCHANGED <<exVars, tlVars, rqVars>>
    \/ \E t \in Threads :
          IsAllowedDecide(t) /\ UNCHANGED <<exVars, tlVars, rqVars>>
    \/ GetConnection(EventLoop) /\ UNCHANGED <<rlVars, tlVars, rqVars>>
    \/ SetSession(EventLoop) /\ UNCHANGED <<rlVars, tlVars, rqVars>>
    \/ RunStatement(EventLoop) /\ UNCHANGED <<rlVars, tlVars, rqVars>>
    \/ Rollback(EventLoop) /\ UNCHANGED <<rlVars, tlVars, rqVars>>
    \/ PutConnection(EventLoop) /\ UNCHANGED <<rlVars, tlVars, rqVars>>
    \/ ExecuteQuery_Return(EventLoop) /\ UNCHANGED <<rlVars, tlVars, rqVars>>

\* ------------------------------------------------------ ParameterValidator
\* Python values: None, str (its characters), int, bool and datetime.date
\* (<<year, month, day>>).
PyNone == [t |-> "NoneType", v |-> <<>>]
PyStr(s) == [t |-> "str", v |-> s]
PyInt(n) == [t |-> "int", v |-> n]
PyBool(b) == [t |-> "bool", v |-> b]
PyDate(d) == [t |-> "date", v |-> d]
\* value is None
IsNone(value) == value.t = "NoneType"

\* dict.get(key, default); a dict is a function on its keys
Get(dict, key, default) == IF key \in DOMAIN dict THEN dict[key] ELSE default
EmptyDict == <<>>

\* (is_valid, error_message, sanitized_value); the message is kept as the
\* check that failed and the parameter it names.
NoError == [check |-> "", name |-> ""]
Valid(value) == [valid |-> TRUE, error |-> NoError, value |-> value]
Invalid(check, param_name) ==
    [valid |-> FALSE, error |-> [check |-> check, name |-> param_name],
     value |-> PyNone]

\* datetime.fromisoformat(text).date() for a text that is YYYY-MM-DD or no
\* date at all: the date, or <<>> for the ValueError.
fromisoformat(text) ==
    LET y == DigitsToInt(SubSeq(text, 1, 4))
        m == DigitsToInt(SubSeq(text, 6, 7))
        d == DigitsToInt(SubSeq(text, 9, 10))
    IN IF Len(text) = 10 /\ IsoDateAt(text, 1)
       THEN IF y >= 1 /\ m \in 1..12 /\ d >= 1 /\ d <= DaysInMonth(y, m)
            THEN <<y, m, d>> ELSE <<>>
       ELSE <<>>

\* date < date
DateBefore(a, b) ==
    \/ a[1] < b[1]
    \/ a[1] = b[1] /\ a[2] < b[2]
    \/ a[1] = b[1] /\ a[2] = b[2] /\ a[3] < b[3]

\* The end of the typed validators: the min_value check, the max_value
\* check, then the converted value.
CheckBounds(param_name, value, below, above) ==
    IF below THEN Invalid("min_value", param_name)
    ELSE IF above THEN Invalid("max_value", param_name)
    ELSE Valid(value)

\* ParameterValidator._validate_date
_validate_date(param_name, value, rules) ==
    LET date == IF value.t = "str" THEN fromisoformat(value.v) ELSE value.v
    IN IF value.t = "str" /\ date = <<>>
       THEN Invalid("date_format", param_name)
       ELSE IF value.t \notin {"str", "date"}
       THEN Invalid("date_type", param_name)
       ELSE CheckBounds(param_name, PyDate(date),
               "min_value" \in DOMAIN rules
                  /\ DateBefore(date, fromisoformat(rules.min_value)),
               "max_value" \in DOMAIN rules
                  /\ DateBefore(fromisoformat(rules.max_value), date))

\* re.match(pattern, value) for the patterns of the model
re_match(pattern, value) ==
    LET body == IF value # <<>> /\ value[Len(value)] = "\n"
                THEN SubSeq(value, 1, Len(value) - 1) ELSE value
    IN CASE pattern = "^[a-z]+$" ->
              body # <<>> /\ \A i \in DOMAIN body : body[i] \in Range(LowerLetters)
         [] pattern = "^[A-Za-z' ]+$" ->
              body # <<>> /\ \A i \in DOMAIN body :
                               IsLetter(body[i]) \/ body[i] \in {"'", " "}

\* re.sub(r'[^a-zA-Z0-9\s\-_]', '', value)
Sanitize(value) ==
    SelectSeq(value, LAMBDA c : IsLetter(c) \/ IsDigit(c) \/ IsSpace(c)
                                   \/ c \in {"-", "_"})

\* ParameterValidator._validate_string
_validate_string(param_name, value, rules) ==
    IF value.t # "str" THEN Invalid("string_type", param_name)
    ELSE IF "allowed_values" \in DOMAIN rules
            /\ value.v \notin rules.allowed_values
    THEN Invalid("allowed_values", param_name)
    ELSE IF "pattern" \in DOMAIN rules /\ ~re_match(rules.pattern, value.v)
    THEN Invalid("pattern", param_name)
    ELSE IF "min_value" \in DOMAIN rules /\ Len(value.v) < rules.min_value
    THEN Invalid("min_length", param_name)
    ELSE IF "max_value" \in DOMAIN rules /\ Len(value.v) > rules.max_value
    THEN Invalid("max_length", param_name)
    ELSE Valid(PyStr(Sanitize(value.v)))

\* int(text) for a str: surrounding whitespace and one sign are allowed;
\* <<>> for the ValueError, <<n>> for the integer
ParseInt(text) ==
    LET s == Strip(text)
        signed == s # <<>> /\ s[1] \in {"-", "+"}
        ds == IF signed THEN Tail(s) ELSE s
    IN IF ds # <<>> /\ \A i \in DOMAIN ds : IsDigit(ds[i])
       THEN <<IF signed /\ s[1] = "-" THEN 0 - DigitsToInt(ds)
              ELSE DigitsToInt(ds)>>
       ELSE <<>>

\* int(value) and float(value) on the values of the model (a str is the text
\* of a decimal integer or no number): <<n>>, or <<>> for ValueError and
\* TypeError
ToNumber(value) ==
    CASE value.t = "int" -> <<value.v>>
      [] value.t = "bool" -> <<IF value.v THEN 1 ELSE 0>>
      [] value.t = "str" -> ParseInt(value.v)
      [] OTHER -> <<>>

\* ParameterValidator._validate_integer
_validate_integer(param_name, value, rules) ==
    LET n == ToNumber(value)
    IN IF n = <<>> THEN Invalid("integer", param_name)
       ELSE CheckBounds(param_name, PyInt(n[1]),
               "min_value" \in DOMAIN rules /\ n[1] < rules.min_value,
               "max_value" \in DOMAIN rules /\ n[1] > rules.max_value)

\* ParameterValidator._validate_float
_validate_float(param_name, value, rules) ==
    LET n == ToNumber(value)
    IN IF n = <<>> THEN Invalid("float", param_name)
       ELSE CheckBounds(param_name, PyInt(n[1]),
               "min_value" \in DOMAIN rules /\ n[1] < rules.min_value,
               "max_value" \in DOMAIN rules /\ n[1] > rules.max_value)

\* ParameterValidator._validate_boolean
_validate_boolean(param_name, value, rules) ==
    IF value.t = "bool" THEN Valid(value)
    ELSE IF value.t = "str"
            /\ Lower(value.v) \in {<<"t","r","u","e">>, <<"y","e","s">>,
                <<"1">>}
    THEN Valid(PyBool(TRUE))
    ELSE IF value.t = "str"
            /\ Lower(value.v) \in {<<"f","a","l","s","e">>, <<"n","o">>,
                <<"0">>}
    THEN Valid(PyBool(FALSE))
    ELSE Invalid("boolean", param_name)

\* ParameterValidator.validate_parameter
validate_parameter(param_name, param_value, param_type, required, validation_rules) ==
    IF required /\ IsNone(param_value) THEN Invalid("missing", param_name)
    ELSE IF ~required /\ IsNone(param_value) THEN Valid(PyNone)
    ELSE CASE param_type = "date" ->
                 _validate_date(param_name, param_value, validation_rules)
           [] param_type = "string" ->
                 _validate_string(param_name, param_value, validation_rules)
           [] param_type = "integer" ->
                 _validate_integer(param_name, param_value, validation_rules)
           [] param_type = "float" ->
                 _validate_float(param_name, param_value, validation_rules)
           [] param_type = "boolean" ->
                 _validate_boolean(param_name, param_value, validation_rules)
           [] OTHER -> Invalid("unknown_type", param_name)

\* validate_parameter applied to one definition of the template (lines
\* 211-224)
ValidateDeclared(parameters, param_def) ==
    validate_parameter(param_def.name,
                       Get(parameters, param_def.name, PyNone),
                       param_def.type,
                       Get(param_def, "required", TRUE),
                       Get(param_def, "validation", EmptyDict))

\* The failure return with the values accepted so far handed out.
AbortKeepsAccepted(error, sanitized) ==
    [valid |-> FALSE, error |-> error, sanitized |-> sanitized]

\* validate_parameters line 227: return False, error, {}
Abort(error, sanitized) ==
    [valid |-> FALSE, error |-> error, sanitized |-> EmptyDict]

\* dict[key] = value
SetItem(dict, key, value) ==
    [k \in DOMAIN dict \cup {key} |-> IF k = key THEN value ELSE dict[k]]

\* ParameterValidator.validate_parameters: the loop from definition i on
RECURSIVE ValidateFrom(_, _, _, _)
ValidateFrom(parameters, parameter_definitions, i, sanitized) ==
    IF i > Len(parameter_definitions)
    THEN [valid |-> TRUE, error |-> NoError, sanitized |-> sanitized]
    ELSE LET param_def == parameter_definitions[i]
             r == ValidateDeclared(parameters, param_def)
         IN IF ~r.valid THEN Abort(r.error, sanitized)
            ELSE ValidateFrom(parameters, parameter_definitions, i + 1,
                    IF ~IsNone(r.value)
                    THEN SetItem(sanitized, param_def.name, r.value)
                    ELSE sanitized)

\* The loop started from the supplied dict instead of an empty one.
validate_parameters_into_supplied(parameters, parameter_definitions) ==
    ValidateFrom(parameters, parameter_definitions, 1, parameters)

\* ParameterValidator.validate_parameters
validate_parameters(parameters, parameter_definitions) ==
    ValidateFrom(parameters, parameter_definitions, 1, EmptyDict)

\* The calls of the model. A declaration without "required" is required.
DeclStartDate ==
    [name |-> "start_date", type |-> "date",
     validation |-> [min_value |-> <<"2","0","2","0","-","0","1","-","0",
         "1">>]]
DeclCategory ==
    [name |-> "category", type |-> "string", required |-> FALSE,
     validation |-> [allowed_values |-> {<<"b","o","o","k","s">>, <<"t","o",
         "y","s">>}]]
DeclLimit ==
    [name |-> "limit", type |-> "integer", required |-> TRUE,
     validation |-> [min_value |-> 1, max_value |-> 1000]]
DeclShape == [name |-> "shape", type |-> "geometry", required |-> FALSE]
DefinitionLists ==
    <<<<DeclStartDate, DeclCategory, DeclLimit>>,
      <<DeclLimit, DeclStartDate>>,
      <<DeclCategory, DeclShape, DeclLimit>>,
      <<>>>>
\* The values a request can carry under each name; the first leaves the name
\* out of the dict.
Absent == [t |-> "absent", v |-> <<>>]
StartDateValues ==
    <<Absent, PyStr(<<"2","0","2","4","-","1","0","-","0","1">>), PyStr(<<"2",
        "0","2","4","-","1","3","-","4","5">>), PyStr(<<"2","0","1","9","-",
        "1","2","-","3","1">>),
      PyDate(<<2024, 10, 1>>)>>
CategoryValues == <<Absent, PyStr(<<"b","o","o","k","s">>), PyStr(<<"c","a",
    "r","s">>), PyInt(7)>>
LimitValues ==
    <<Absent, PyInt(5), PyInt(5000), PyStr(<<"a","b","c">>), PyStr(<<" ","7",
        " ">>), PyNone>>
ShapeValues == <<Absent, PyStr(<<"b","o","x">>)>>
\* The dict with the given values under the three names
ParameterDict(start_date, category, limit, shape) ==
    LET given == [start_date |-> start_date, category |-> category,
                  limit |-> limit, shape |-> shape]
    IN [k \in {n \in DOMAIN given : given[n].t # "absent"} |-> given[k]]

\* The values and rules _validate_string is called with.
StringValues ==
    <<PyStr(<<"b","o","o","k","s">>), PyStr(<<"O","'","B","r","i","e","n">>),
        PyStr(<<"a",";","b">>), PyStr(<<"t","o","p","-","1","0","_","x"," ",
        "y">>),
      PyStr(<<>>), PyInt(3)>>
StringRules ==
    <<EmptyDict,
      [allowed_values |-> {<<"b","o","o","k","s">>, <<"O","'","B","r","i","e",
          "n">>}],
      [pattern |-> "^[A-Za-z' ]+$"],
      [pattern |-> "^[a-z]+$", min_value |-> 2, max_value |-> 5],
      [min_value |-> 1, max_value |-> 4]>>

\* ------------------------------------------------------ calls of validators
\* The validators and the limit enforcer keep no state of their own: a call
\* is its arguments (fn_call) and what it returned (fn_ret). A behaviour is
\* one call.
NoCall == <<"none">>

FNInit ==
    /\ fn_call = NoCall
    /\ fn_ret = <<>>

\* ParameterValidator.validate_parameters(parameters, parameter_definitions)
Call_validate_parameters ==
    \E s \in DOMAIN StartDateValues, c \in DOMAIN CategoryValues,
       l \in DOMAIN LimitValues, g \in DOMAIN ShapeValues,
       d \in DOMAIN DefinitionLists :
        LET parameters == ParameterDict(StartDateValues[s], CategoryValues[c],
                                        LimitValues[l], ShapeValues[g])
        IN /\ fn_call = NoCall
           /\ fn_call' = <<"validate_parameters", parameters,
                           DefinitionLists[d]>>
           /\ fn_ret' = validate_parameters(parameters, DefinitionLists[d])

\* ParameterValidator._validate_string(param_name, value, rules)
Call_validate_string ==
    \E v \in DOMAIN StringValues, r \in DOMAIN StringRules :
        /\ fn_call = NoCall
        /\ fn_call' = <<"_validate_string", StringValues[v], StringRules[r]>>
        /\ fn_ret' = _validate_string("category", StringValues[v],
                                      StringRules[r])

\* ---- statements for the calls of SQLValidator: a select list, a table and a
\* tail, so that keywords occur standalone, inside identifiers and in either
\* case, and semicolons and UNION occur in every position.
SelectColumns ==
    << <<"a","m","o","u","n","t">>, <<"d","e","s","c","r","i","p","t","i","o",
        "n">>, <<"c","r","e","a","t","e","d","_","a","t">>, <<"u","p","d","a",
        "t","e","_","c","o","u","n","t">>, <<"d","r","o","p">>,
       <<"D","E","L","E","T","E">>, <<"U","p","d","a","t","e">>, <<"x",".",
           "i","n","s","e","r","t">>, <<"(","a","l","t","e","r",")">>, <<"d",
           "r","o","p","d","e","l","e","t","e">>, <<"d","r","o","p","_">>,
       <<"e","x","e","c","u","t","e">> >>
StatementTails ==
    << <<>>, <<";">>, <<";",";">>, <<" ",";"," "," ">>, <<";"," ","D","R","O",
        "P"," ","T","A","B","L","E"," ","u","s","e","r","s">>, <<";"," ","S",
        "E","L","E","C","T"," ","1",";">>,
       <<" ","U","N","I","O","N"," ","S","E","L","E","C","T"," ","b"," ","F",
           "R","O","M"," ","u","s","e","r","s">>, <<"\t","U","N","I","O","N",
           "\t","S","E","L","E","C","T"," ","b"," ","F","R","O","M"," ","u",
           "s","e","r","s">>,
       <<"\n","u","n","i","o","n"," ","a","l","l","\n","S","E","L","E","C",
           "T"," ","b"," ","F","R","O","M"," ","u","s","e","r","s">>, <<" ",
           "U","N","I","O","N","(","S","E","L","E","C","T"," ","b"," ","F",
           "R","O","M"," ","u","s","e","r","s",")">>,
       <<" ","W","H","E","R","E"," ","r","e","u","n","i","o","n","_","i","d",
           " ","="," ","1">>, <<" ","U","N","I","O","N">> >>
StructureStatement(c, t) ==
    <<"S","E","L","E","C","T"," ">> \o SelectColumns[c] \o <<" ","F","R","O",
        "M"," ","s","a","l","e","s","_","t","r","a","n","s","a","c","t","i",
        "o","n","s">>
        \o StatementTails[t]

\* SQLValidator.validate_no_blocked_keywords(sql)
Call_validate_no_blocked_keywords ==
    \E c \in DOMAIN SelectColumns, t \in DOMAIN StatementTails :
        /\ fn_call = NoCall
        /\ fn_call' = <<"validate_no_blocked_keywords",
                        StructureStatement(c, t)>>
        /\ fn_ret' = validate_no_blocked_keywords(StructureStatement(c, t))

\* SQLValidator.validate_no_semicolons(sql)
Call_validate_no_semicolons ==
    \E c \in DOMAIN SelectColumns, t \in DOMAIN StatementTails :
        /\ fn_call = NoCall
        /\ fn_call' = <<"validate_no_semicolons", StructureStatement(c, t)>>
        /\ fn_ret' = validate_no_semicolons(StructureStatement(c, t))

\* SQLValidator.validate_query(sql)
Call_SQLValidator_validate_query ==
    \E c \in DOMAIN SelectColumns, t \in DOMAIN StatementTails :
        /\ fn_call = NoCall
        /\ fn_call' = <<"SQLValidator.validate_query",
                        StructureStatement(c, t)>>
        /\ fn_ret' = SQLValidator_validate_query(StructureStatement(c, t))


\* ---- statements for the calls of WhitelistValidator: a table after FROM
\* and a second one joined to it, written bare, in another case, quoted and
\* in a comma list.
FromTables ==
    << <<"s","a","l","e","s","_","t","r","a","n","s","a","c","t","i","o","n",
        "s">>, <<"w","e","b","s","i","t","e","_","v","i","s","i","t","s">>,
        <<"u","s","e","r","s">>, <<"\"","u","s","e","r","s","\"">>,
       <<"S","a","l","e","s","_","T","r","a","n","s","a","c","t","i","o","n",
           "s">> >>
JoinClauses ==
    << <<>>, <<" ","J","O","I","N"," ","u","s","e","r","s"," ","O","N"," ",
        "a"," ","="," ","b">>, <<" ","J","O","I","N"," ","\"","u","s","e","r",
        "s","\""," ","O","N"," ","a"," ","="," ","b">>,
       <<"\n","j","o","i","n"," "," ","w","e","b","s","i","t","e","_","v","i",
           "s","i","t","s"," ","O","N"," ","a"," ","="," ","b">>, <<","," ",
           "u","s","e","r","s">>,
       <<" ","W","H","E","R","E"," ","a"," ","I","N"," ","(","S","E","L","E",
           "C","T"," ","a"," ","F","R","O","M"," ","u","s","e","r","s",
           ")">> >>
WhitelistStatement(f, j) ==
    <<"S","E","L","E","C","T"," ","a"," ","F","R","O","M",
        " ">> \o FromTables[f] \o JoinClauses[j]
AllowedTablesLists ==
    << <<TSalesTransactions>>, <<TWebsiteVisits>>, <<TUsers>>,
       <<TSalesTransactions, TWebsiteVisits>>,
       <<TSalesTransactions, TUsers>> >>

\* WhitelistValidator.validate_tables(sql, allowed_tables)
Call_validate_tables ==
    \E f \in DOMAIN FromTables, j \in DOMAIN JoinClauses,
       a \in DOMAIN AllowedTablesLists :
        /\ fn_call = NoCall
        /\ fn_call' = <<"validate_tables", WhitelistStatement(f, j),
                        AllowedTablesLists[a]>>
        /\ fn_ret' = validate_tables(WhitelistStatement(f, j),
                                     AllowedTablesLists[a])

\* WhitelistValidator.validate_no_subqueries(sql)
Call_validate_no_subqueries ==
    \E f \in DOMAIN FromTables, j \in DOMAIN JoinClauses :
        /\ fn_call = NoCall
        /\ fn_call' = <<"validate_no_subqueries", WhitelistStatement(f, j)>>
        /\ fn_ret' = validate_no_subqueries(WhitelistStatement(f, j))


\* ---- statements for the calls of the limit enforcer: no LIMIT clause, one
\* below, at and above the maximum in either case, and a terminator or none.
LimitClauses ==
    << <<>>, <<" ","O","R","D","E","R"," ","B","Y"," ","a">>, <<" ","L","I",
        "M","I","T"," ","5">>, <<" ","L","I","M","I","T"," ","1","0","0",
        "0">>, <<" ","l","i","m","i","t"," ","1","0","0","0">>,
       <<" ","L","I","M","I","T"," ","1","0","0","1">>, <<" ","O","R","D","E",
           "R"," ","B","Y"," ","a","\n","l","i","m","i","t"," "," ","5","0",
           "0","0">>, <<" ","L","I","M","I","T"," ","0">> >>
Terminators == << <<>>, <<";">>, <<" ",";","\n">> >>
LimitStatement(l, e) ==
    <<"S","E","L","E","C","T"," ","a"," ","F","R","O","M"," ","w","e","b","s",
        "i","t","e","_","v","i","s","i","t",
        "s">> \o LimitClauses[l] \o Terminators[e]
RequestedLimits == <<None, Some(0), Some(0 - 5), Some(50), Some(1000),
    Some(5000)>>

\* LimitInjector.inject_limit(sql, requested_limit, template_requires_limit)
Call_inject_limit ==
    \E l \in DOMAIN LimitClauses, e \in DOMAIN Terminators,
       r \in DOMAIN RequestedLimits, template_requires_limit \in BOOLEAN :
        /\ fn_call = NoCall
        /\ fn_call' = <<"inject_limit", LimitStatement(l, e),
                        RequestedLimits[r], template_requires_limit>>
        /\ fn_ret' = inject_limit(LimitStatement(l, e), RequestedLimits[r],
                                  template_requires_limit)

\* QueryExecutor.inject_limit_clause(sql, limit)
Call_inject_limit_clause ==
    \E l \in DOMAIN LimitClauses, e \in DOMAIN Terminators,
       r \in DOMAIN RequestedLimits :
        /\ fn_call = NoCall
        /\ fn_call' = <<"inject_limit_clause", LimitStatement(l, e),
                        RequestedLimits[r], TRUE>>
        /\ fn_ret' = inject_limit_clause(LimitStatement(l, e),
                                         RequestedLimits[r])

\* LimitInjector.validate_limit(limit)
Call_validate_limit ==
    \E r \in DOMAIN RequestedLimits :
        /\ RequestedLimits[r] # None
        /\ fn_call = NoCall
        /\ fn_call' = <<"validate_limit", RequestedLimits[r][1]>>
        /\ fn_ret' = validate_limit(RequestedLimits[r][1])


\* --------------------------------------------------------- specifications
\* The rate limiter alone: the execution layer stays as constructed.
RateInit ==
    /\ RLInit /\ EXInit /\ database_pool_size = 1 /\ TLInit /\ RQInit
    /\ FNInit
RateNext == RLNext /\ UNCHANGED <<exVars, tlVars, rqVars, fnVars>>
SpecRate == RateInit /\ [][RateNext]_vars

\* The execution layer alone: QueryExecutor.execute_query called from
\* concurrent request threads.
ExecInit == RLInit /\ rate_limit = 1 /\ EXInit /\ TLInit /\ RQInit /\ FNInit
ExecNext == EXNext /\ UNCHANGED <<rlVars, tlVars, rqVars, fnVars>>
SpecExec == ExecInit /\ [][ExecNext]_vars

\* The template registry alone: lookups and registry reads of request
\* threads, concurrent with one thread that loads or reloads, over a
\* template directory that changes between runs of the loader.
TemplatesInit ==
    /\ RLInit /\ rate_limit = 1
    /\ EXInit /\ database_pool_size = 1
    /\ TLInit /\ RQInit /\ FNInit
TemplatesNext == TLNext /\ UNCHANGED <<rlVars, exVars, rqVars, fnVars>>
SpecTemplates == TemplatesInit /\ [][TemplatesNext]_vars

\* The request paths: process_query on a worker thread and query_sales on
\* the event loop, over the rate limiter, the template registry and the
\* execution layer. The clock stands still (the requests fall in one rate
\* window) and the template files stay as deployed.
PipelineInit ==
    /\ RLInit /\ rate_limit = 1
    /\ EXInit /\ database_pool_size = 1
    /\ TLInit /\ RQInit /\ FNInit
PipelineNext == PLNext /\ UNCHANGED fnVars
SpecPipeline == PipelineInit /\ [][PipelineNext]_vars

\* The parameter validator alone: validate_parameters and _validate_string
\* called with the declarations and values of the model.
ParamsInit ==
    /\ RLInit /\ rate_limit = 1
    /\ EXInit /\ database_pool_size = 1
    /\ TLInit /\ RQInit /\ FNInit
ParamsNext ==
    /\ Call_validate_parameters \/ Call_validate_string
    /\ UNCHANGED <<rlVars, exVars, tlVars, rqVars>>
SpecParams == ParamsInit /\ [][ParamsNext]_vars

\* The structural validator alone: its checks called with the statements of
\* the model.
StructureInit ==
    /\ RLInit /\ rate_limit = 1
    /\ EXInit /\ database_pool_size = 1
    /\ TLInit /\ RQInit /\ FNInit
StructureNext ==
    /\ \/ Call_validate_no_blocked_keywords
       \/ Call_validate_no_semicolons
       \/ Call_SQLValidator_validate_query
    /\ UNCHANGED <<rlVars, exVars, tlVars, rqVars>>
SpecStructure == StructureInit /\ [][StructureNext]_vars


\* The whitelist validator alone: its checks called with the statements and
\* the allowed-table lists of the model.
WhitelistInit ==
    /\ RLInit /\ rate_limit = 1
    /\ EXInit /\ database_pool_size = 1
    /\ TLInit /\ RQInit /\ FNInit
WhitelistNext ==
    /\ Call_validate_tables \/ Call_validate_no_subqueries
    /\ UNCHANGED <<rlVars, exVars, tlVars, rqVars>>
SpecWhitelist == WhitelistInit /\ [][WhitelistNext]_vars


\* The limit enforcer alone: LimitInjector and the executor's own injection
\* called with the statements and the requested limits of the model.
LimitInit ==
    /\ RLInit /\ rate_limit = 1
    /\ EXInit /\ database_pool_size = 1
    /\ TLInit /\ RQInit /\ FNInit
LimitNext ==
    /\ \/ Call_inject_limit
       \/ Call_inject_limit_clause
       \/ Call_validate_limit
    /\ UNCHANGED <<rlVars, exVars, tlVars, rqVars>>
SpecLimit == LimitInit /\ [][LimitNext]_vars

\* The rate limiter under process_query: requests on worker threads whose
\* later stages fail, status reads, and a clock that advances.
QuotaInit == RLInit /\ EXInit /\ database_pool_size = 1 /\ TLInit /\ RQInit /\ FNInit
QuotaNext ==
    /\ \/ \E t \in Threads, u \in Callers : ProcessQuery_Call(t, u, QVisitors)
       \/ \E t \in Threads : ProcessQuery_Continue(t)
       \/ \E t \in Threads :
             IsAllowedCount(t) /\ UNCHANGED <<exVars, tlVars, rqVars>>
       \/ \E t \in Threads :
             IsAllowedDecide(t) /\ UNCHANGED <<exVars, tlVars, rqVars>>
       \/ \E u \in Callers :
             GetUserStatus(u) /\ UNCHANGED <<exVars, tlVars, rqVars>>
       \/ Tick /\ UNCHANGED <<exVars, tlVars, rqVars>>
    /\ UNCHANGED fnVars
SpecQuota == QuotaInit /\ [][QuotaNext]_vars

\* ------------------------------------------------------ rate limiter claims

\* Number of u's admitted calls whose timestamps lie in [s, s + window]. An
\* interval holding k admitted timestamps still holds them when its start is
\* moved up to the first of them, so the intervals that start at an admitted
\* timestamp decide the bound for every interval.
AdmittedIn(u, s) ==
    Cardinality({i \in DOMAIN admitted[u] :
                    admitted[u][i] >= s /\ admitted[u][i] <= s + window_seconds})

C2_CheckAndAppendAtomic ==
    /\ \A t1, t2 \in Threads :
          t1 # t2 => ~(rl_pc[t1] = "counted" /\ rl_pc[t2] = "counted")
    /\ \A t \in Threads :
          rl_pc[t] = "counted" =>
             /\ lock = t
             /\ queries_in_window[t] = Len(query_times[rl_user[t]])
    /\ \A u \in DOMAIN query_times : Len(query_times[u]) <= rate_limit

\* C2 witness: one slot remains in the caller's window, one thread is inside
\* the critical section having counted it, and a second thread has called
\* is_allowed for the same caller and is held at the lock.
C2_Witness ==
    /\ rate_limit = 2
    /\ rl_pc["t1"] = "counted"
    /\ queries_in_window["t1"] = 1
    /\ rl_pc["t2"] = "waiting"
    /\ rl_user["t1"] = rl_user["t2"]

\* C21: whenever is_allowed rejects, the wait it reports is positive, at most
\* the window, and equal to window - (now - oldest retained timestamp).
C21_WaitIsRestOfWindow ==
    [][\A t \in Threads :
          (rl_pc[t] = "counted" /\ rl_result'[t].kind = "reject") =>
              /\ rl_result'[t].wait > 0
              /\ rl_result'[t].wait <= window_seconds
              /\ rl_result'[t].wait =
                    window_seconds
                    - (current_time[t] - Head(query_times[rl_user[t]]))]_vars

\* The timestamps of a deque that are not older than the window at time now.
UnexpiredOf(user_times, now) ==
    LET InWindow(ts) == now - ts <= window_seconds
    IN SelectSeq(user_times, InWindow)

\* C24: after cleanup_expired the map holds no caller whose timestamps are
\* all older than the window, every caller with an unexpired timestamp is
\* kept with exactly its unexpired timestamps, and wherever the sweep falls
\* among the is_allowed calls a call is admitted exactly when fewer than
\* rate_limit of the caller's admitted calls are unexpired.
C24_CleanupKeepsDecisions ==
    [][/\ CleanupExpired =>
             /\ \A u \in DOMAIN query_times' :
                   UnexpiredOf(query_times'[u], clock) # <<>>
             /\ \A u \in DOMAIN query_times :
                   UnexpiredOf(query_times[u], clock) # <<>> =>
                      /\ u \in DOMAIN query_times'
                      /\ query_times'[u] = UnexpiredOf(query_times[u], clock)
       /\ \A t \in Threads :
             (rl_pc[t] = "counted" /\ rl_pc'[t] = "idle") =>
                (rl_result'[t].kind = "admit" <=>
                    Cardinality(Unexpired(rl_user[t], current_time[t]))
                        < rate_limit)]_vars

\* The sweep removed u1, whose admitted calls have all expired (only the
\* sweep deletes an entry of the map), and kept u2 with its timestamps.
C24_Witness ==
    /\ admitted["u1"] # <<>>
    /\ "u1" \notin DOMAIN query_times
    /\ "u2" \in DOMAIN query_times
    /\ query_times["u2"] # <<>>

\* C26: a caller's window gains exactly one timestamp with each admitted
\* is_allowed call and none with a rejected one, the remaining quota returned
\* on admission is rate_limit minus the window length after the append,
\* get_user_status adds neither a timestamp nor a caller entry, and the
\* return of process_query, whatever its outcome, leaves the window as it
\* is: the unexpired timestamps of the window are always those of the
\* caller's admitted calls.
C26_AdmissionConsumesQuota ==
    [][/\ \A t \in Threads :
             (rl_pc[t] = "counted" /\ rl_pc'[t] = "idle") =>
                /\ rl_result'[t].kind = "admit" =>
                      /\ query_times'[rl_user[t]] =
                            Append(query_times[rl_user[t]], current_time[t])
                      /\ rl_result'[t].remaining =
                            rate_limit - Len(query_times'[rl_user[t]])
                /\ rl_result'[t].kind = "reject" => query_times' = query_times
       /\ (\E u \in Callers : GetUserStatus(u)) =>
             /\ DOMAIN query_times' = DOMAIN query_times
             /\ \A u \in DOMAIN query_times :
                   Range(query_times'[u]) \subseteq Range(query_times[u])
       /\ \A t \in Threads :
             (rq_pc[t] = "rate_check" /\ rq_pc'[t] = "idle") =>
                query_times' = query_times
       /\ \A u \in Callers :
             UnexpiredOf(admitted[u], clock)' =
                IF u \in DOMAIN query_times'
                THEN UnexpiredOf(query_times[u], clock)' ELSE <<>>]_vars

\* With a cap of 1, u1's request was admitted and then failed for want of a
\* template; its timestamp is still in the window and u1's next request was
\* rejected by the rate limiter.
C26_Witness ==
    /\ rate_limit = 1
    /\ rq_response["t1"].error = "no_template"
    /\ rl_user["t1"] = "u1"
    /\ rl_result["t1"].kind = "admit"
    /\ rl_result["t1"].remaining = 0
    /\ Len(query_times["u1"]) = 1
    /\ rl_user["t2"] = "u1"
    /\ rq_response["t2"].error = "rate_limited"

\* C27: for every configured rate_limit_per_minute >= 0 and every window
\* state, a first-time caller included, is_allowed returns a decision and
\* never raises.
C27_IsAllowedNeverRaises ==
    \A t \in Threads : rl_result[t].kind # "raise"

\* --------------------------------------------------- execution layer claims

\* The thread's current call recorded the event e on its connection.
HasEvent(t, e) == \E i \in DOMAIN ex_events[t] : ex_events[t][i] = e
CountEvent(t, e) == Cardinality({i \in DOMAIN ex_events[t] : ex_events[t][i] = e})
\* The thread's current call passed its statement to cursor.execute.
StatementSent(t) == \E i \in DOMAIN ex_events[t] : ex_events[t][i] \in DbOutcomes

\* C3: a statement is passed to the connection manager only after the SQL
\* structural validation and the table whitelist validation were both applied
\* to it and both accepted it, whatever allowed_tables is (an empty or absent
\* list included); after a rejection no connection is acquired and no
\* statement is sent.
C3_ValidatedBeforeSent ==
    \A t \in Threads :
        /\ (ex_pc[t] # "idle" \/ StatementSent(t)) =>
              {"structural", "whitelist"} \subseteq ex_checks[t]
        /\ ex_result[t].kind = "rejected" => ex_events[t] = <<>>

\* C5: every connection obtained from the pool is returned exactly once and a
\* rollback is issued on it right before it is returned, on every exit path;
\* the pool counts exactly the connections that are out.
C5_RollbackThenReturn ==
    /\ pool_used = Cardinality({t \in Threads :
          ex_pc[t] \in {"acquired", "yielded", "finally", "rolled_back"}})
    /\ \A t \in Threads :
          /\ CountEvent(t, "getconn") <= 1
          /\ CountEvent(t, "putconn") <= CountEvent(t, "getconn")
          /\ \A i \in DOMAIN ex_events[t] :
                ex_events[t][i] = "putconn" =>
                   i > 1 /\ ex_events[t][i - 1] = "rollback"
          /\ (ex_pc[t] \in {"returned", "raised", "idle"}
              /\ HasEvent(t, "getconn")) =>
                 /\ CountEvent(t, "putconn") = 1
                 /\ CountEvent(t, "rollback") = 1

\* C5 witness: one call ended by a set_session failure and another by a
\* statement timeout, each having rolled back and returned its connection.
C5_Witness ==
    /\ ex_pc["t1"] = "idle"
    /\ ex_events["t1"] = <<"getconn", "set_session", "rollback", "putconn">>
    /\ ex_result["t1"].cause = "SessionError"
    /\ ex_pc["t2"] = "idle"
    /\ ex_events["t2"] =
          <<"getconn", "set_session", "cancelled", "rollback", "putconn">>

\* C6: execute_query reports the timeout failure exactly when the database
\* cancelled the statement; no other execution error yields it.
C6_TimeoutIffCancelled ==
    \A t \in Threads :
        ex_pc[t] = "idle" =>
           (ex_result[t].kind = "timeout" <=> HasEvent(t, "cancelled"))

\* C6 witness: one call was cancelled by the statement timeout and reported as
\* a timeout, another failed with a different database error and was reported
\* as a generic failure.
C6_Witness ==
    /\ ex_pc["t1"] = "idle"
    /\ HasEvent("t1", "cancelled")
    /\ ex_result["t1"].kind = "timeout"
    /\ ex_pc["t2"] = "idle"
    /\ HasEvent("t2", "dberror")
    /\ ex_result["t2"].kind = "failed"

\* C7: pool exhaustion alone never makes execute_query return a failure: a
\* call that finds every connection handed out waits and then runs.
C7_ExhaustionNeverFails ==
    \A t \in Threads : ex_result[t].cause # "PoolError"

\* The stage a failure of execute_query stems from.
FailingStage(result) ==
    IF result.kind = "rejected" THEN result.error.check ELSE result.kind

\* C23: the error text returned to the caller holds neither the database
\* error string nor the statement nor table or column names: two failures
\* of the same stage that differ only in the underlying error or in the
\* offending identifiers return the same text.
C23_ErrorTextHidesDetail ==
    \A t1, t2 \in Threads :
        (/\ ex_result[t1].kind \in {"rejected", "timeout", "failed"}
         /\ ex_result[t2].kind \in {"rejected", "timeout", "failed"}
         /\ FailingStage(ex_result[t1]) = FailingStage(ex_result[t2])) =>
            error_message(ex_result[t1]) = error_message(ex_result[t2])

\* ------------------------------------------------- template registry claims

\* C8: a template that fails validate_template (a missing required field, a
\* sql_structure not starting with SELECT, a declared table outside the
\* global whitelist) is never in the registry cache and never returned by a
\* lookup.
C8_InvalidNeverSelectable ==
    /\ \A id \in (DOMAIN templates) \cap TemplateIds : SchemaValid[templates[id]]
    /\ \A t \in Threads :
          tl_read[t] \notin {NoDoc, DocSchema} => SchemaValid[tl_read[t]]

\* C9: a registry read made while reload_templates runs observes the complete
\* registry from before the reload or the complete one from after it, never
\* an empty or partly filled one.
C9_ReadsSeeCompleteRegistry ==
    [][\A t \in Threads :
          (ReloadRunning /\ tl_seen'[t] # tl_seen[t]) =>
             tl_seen'[t] \in {DOMAIN lt_pre, DOMAIN FullRegistry}]_vars

\* C10: when a template file fails to load or to validate during
\* reload_templates, the cache the reload leaves is the cache from before it.
C10_FailedReloadKeepsCache ==
    [][(lt_mode = "reload" /\ lt_pc = "loading" /\ lt_pc' = "idle" /\ lt_failed)
          => templates' = lt_pre]_vars

\* C25: whatever load_template, load_all_templates and reload_templates
\* calls were made and whatever ids were asked for, the registry holds no
\* entry for the template_schema.json document and no lookup returns that
\* document as a template.
C25_SchemaNeverRegistered ==
    /\ SchemaFile \notin DOMAIN templates
    /\ \A id \in DOMAIN templates : templates[id] # DocSchema
    /\ \A t \in Threads : tl_read[t] # DocSchema

\* ---------------------------------------------------- request path claims

\* The fixed order of the stages of a request that reaches the database.
StageOrder ==
    <<"rate_check", "template_load", "parameter_validation", "substitution",
      "structural_validation", "whitelist_validation", "limit_injection",
      "execution">>

\* The stages of a handler that end the request.
FailedStages == {"rate_check:raised", "rate_check:rejected", "template_load:failed"}

\* The stages the thread's request in the executor has gone through: those
\* of its handler, then those of execute_query.
StagesRun(t) ==
    rq_stages[t]
    \o (IF "structural" \in ex_checks[t] THEN <<"structural_validation">> ELSE <<>>)
    \o (IF "whitelist" \in ex_checks[t] THEN <<"whitelist_validation">> ELSE <<>>)
    \o (IF ex_result[t].kind # "rejected" THEN <<"limit_injection">> ELSE <<>>)
    \o (IF StatementSent(t) THEN <<"execution">> ELSE <<>>)

\* C4: on every request path, a request whose statement was executed went
\* through the stages rate check (accepted), template load, parameter
\* validation, substitution, structural validation, whitelist validation,
\* limit injection, execution, in that order, and no stage runs after a
\* stage that failed.
C4_StagesInFixedOrder ==
    \A t \in Threads :
        /\ (rq_pc[t] = "executing" /\ StatementSent(t)) =>
              StagesRun(t) = StageOrder
        /\ \A i \in DOMAIN rq_stages[t] :
              rq_stages[t][i] \in FailedStages => i = Len(rq_stages[t])
        /\ (rq_pc[t] = "executing" /\ ex_result[t].kind = "rejected") =>
              ex_events[t] = <<>>

\* The audit records written for the failure the thread's request ended in:
\* those of the handler, those of execute_query when the failure is the
\* executor's, and the log_rate_limit record of a rejecting is_allowed.
FailureRecords(t) ==
    Range(rq_audit[t])
    \cup (IF rq_response[t].error \in {"rejected", "timeout", "failed"}
          THEN Range(ex_audit[t]) ELSE {})
    \cup (IF rq_response[t].error = "rate_limited" /\ rl_result[t].kind = "reject"
          THEN {"rate_limit"} ELSE {})

\* The audit records that name a failing stage.
IdentifiesFailure(record) ==
    record \in {"rate_limit", "validation_failure:sql_keywords",
                "validation_failure:table_whitelist",
                "validation_failure:parameter_validation",
                "query_execution:failure"}

\* C22: every request that ends in a failure, at whatever stage, has written
\* at least one audit record that identifies the failing stage by the time
\* the failure is returned.
C22_FailureAudited ==
    \A t \in Threads :
        (rq_pc[t] = "idle" /\ ~rq_response[t].success
         /\ rq_response[t].error # "none") =>
            \E record \in FailureRecords(t) : IdentifiesFailure(record)

\* ---------------------------------------------- parameter validator claims

\* The declarations of a validate_parameters call that its arguments fail.
FailingDeclarations(parameters, parameter_definitions) ==
    {i \in DOMAIN parameter_definitions :
        ~ValidateDeclared(parameters, parameter_definitions[i]).valid}

\* C11: validate_parameters is all-or-nothing in declaration order: when some
\* declared parameter fails, the result is invalid, carries the error of the
\* first failing declaration and an empty parameter set; it is valid only
\* when every declared parameter passed.
C11_AllOrNothing ==
    fn_call[1] = "validate_parameters" =>
        LET failing == FailingDeclarations(fn_call[2], fn_call[3])
        IN IF failing # {}
           THEN /\ ~fn_ret.valid
                /\ fn_ret.error =
                      ValidateDeclared(fn_call[2],
                                       fn_call[3][Leftmost(failing)]).error
                /\ DOMAIN fn_ret.sanitized = {}
           ELSE fn_ret.valid

\* C11 witness: the first declaration was accepted, the second and the third
\* both fail; the call reported the second and returned no parameter.
C11_Witness ==
    /\ fn_call[1] = "validate_parameters"
    /\ FailingDeclarations(fn_call[2], fn_call[3]) = {2, 3}
    /\ ~fn_ret.valid
    /\ fn_ret.error.name = fn_call[3][2].name
    /\ DOMAIN fn_ret.sanitized = {}

\* C12: whenever _validate_string reports valid, the value it returns is the
\* value supplied (and one of allowed_values when that rule is declared): a
\* value with a character outside letters, digits, whitespace, hyphen and
\* underscore is rejected, not altered.
C12_ValidStringUnaltered ==
    (fn_call[1] = "_validate_string" /\ fn_ret.valid) =>
        /\ fn_ret.value.v = fn_call[2].v
        /\ "allowed_values" \in DOMAIN fn_call[3] =>
               fn_ret.value.v \in fn_call[3].allowed_values

\* The names a list of parameter definitions declares.
DeclaredNames(parameter_definitions) ==
    {parameter_definitions[i].name : i \in DOMAIN parameter_definitions}

\* C28: the names in a successful result of validate_parameters are among
\* the names the template declares, so a supplied value under an undeclared
\* name is not in the dict handed to the substitution, and a declared
\* optional parameter that was not supplied is absent from the result.
C28_OnlyDeclaredNames ==
    (fn_call[1] = "validate_parameters" /\ fn_ret.valid) =>
        /\ DOMAIN fn_ret.sanitized \subseteq DeclaredNames(fn_call[3])
        /\ DOMAIN fn_ret.sanitized \subseteq DOMAIN fn_call[2]

\* A successful call that was given a value for shape, which the template
\* does not declare, and none for the optional category.
C28_Witness ==
    /\ fn_call[1] = "validate_parameters"
    /\ fn_call[3] = DefinitionLists[1]
    /\ DOMAIN fn_call[2] = {"start_date", "limit", "shape"}
    /\ fn_ret.valid
    /\ DOMAIN fn_ret.sanitized = {"start_date", "limit"}

\* ---------------------------------------------- structural validator claims
\* The tokens of a text: its maximal runs of letters, digits and underscores.
Words(str) ==
    {SubSeq(str, i, SpanWord(str, i) - 1) :
        i \in {j \in 1..Len(str) :
                 /\ IsWordChar(str[j])
                 /\ j = 1 \/ ~IsWordChar(str[j - 1])}}

\* The blocked keywords that are tokens of sql, in any letter case.
StandaloneKeywords(sql) ==
    {keyword \in blocked_keywords : \E w \in Words(sql) : Upper(w) = keyword}

\* C13: validate_no_blocked_keywords rejects exactly when some blocked
\* keyword is a token of the statement in any letter case, the rejection
\* names every such keyword and no other, and a blocked word that is only a
\* part of a longer identifier causes no rejection.
C13_StandaloneKeywordsRejected ==
    fn_call[1] = "validate_no_blocked_keywords" =>
        /\ fn_ret.valid <=> StandaloneKeywords(fn_call[2]) = {}
        /\ fn_ret.names = StandaloneKeywords(fn_call[2])

\* A statement that holds created_at (CREATE inside an identifier) and DROP
\* as a token: rejected, naming DROP alone.
C13_Witness ==
    /\ fn_call[1] = "validate_no_blocked_keywords"
    /\ fn_call[2] = StructureStatement(3, 5)
    /\ ~fn_ret.valid
    /\ fn_ret.names = {<<"D","R","O","P">>}

\* What a rejection message cites: the blocked-keyword message lists the
\* keywords found, the semicolon message says "semicolon detected".
CitesKeyword(error, keyword) ==
    error.check = "blocked_keywords" /\ keyword \in error.names
CitesSemicolon(error) == error.check = "semicolons"

\* C14: Scenario B's statement (it starts with SELECT, holds the token DROP
\* and a semicolon followed by text) is rejected at the structural stage, the
\* rejection cites both DROP and the embedded semicolon, and neither the
\* whitelist check nor the database runs for it.
C14_ScenarioBCitesBoth ==
    \A t \in Threads :
        (ex_sql[t] = SqlScenarioB /\ ex_result[t].kind = "rejected") =>
            /\ ex_result[t].cause = "sql_keywords"
            /\ CitesKeyword(ex_result[t].error, <<"D","R","O","P">>)
            /\ CitesSemicolon(ex_result[t].error)
            /\ ex_checks[t] = {}
            /\ ex_events[t] = <<>>

\* The positions of the character ch in str.
Occurrences(str, ch) == {i \in DOMAIN str : str[i] = ch}
\* The position of the last character of str that is not whitespace.
LastNonSpace(str) ==
    CHOOSE i \in DOMAIN str :
        ~IsSpace(str[i]) /\ \A j \in (i + 1)..Len(str) : IsSpace(str[j])

\* C15: validate_no_semicolons accepts a statement only if it holds no
\* semicolon at all, or exactly one that is its last non-whitespace
\* character.
C15_OneTrailingTerminator ==
    (fn_call[1] = "validate_no_semicolons" /\ fn_ret.valid) =>
        \/ Occurrences(fn_call[2], ";") = {}
        \/ Occurrences(fn_call[2], ";") = {LastNonSpace(fn_call[2])}

\* C16: a statement in which UNION is a token, in any letter case and
\* whatever surrounds it, is rejected by SQLValidator.validate_query.
C16_UnionTokenRejected ==
    (/\ fn_call[1] = "SQLValidator.validate_query"
     /\ \E w \in Words(fn_call[2]) : Upper(w) = <<"U","N","I","O","N">>) =>
        ~fn_ret.valid

\* ------------------------------------------------ whitelist validator claims
\* The table identifier that follows the keyword starting at position i of
\* sql: after the keyword and whitespace, a name written bare or between
\* double quotes.
TargetAfter(sql, i) ==
    LET at == SpanSpace(sql, SpanWord(sql, i))
        start == IF at <= Len(sql) /\ sql[at] = "\"" THEN at + 1 ELSE at
    IN SubSeq(sql, start, SpanWord(sql, start) - 1)

\* The table identifiers that follow a FROM or JOIN keyword of sql.
FromJoinTargets(sql) ==
    {TargetAfter(sql, i) :
        i \in {j \in 1..Len(sql) :
                 /\ IsWordChar(sql[j])
                 /\ j = 1 \/ ~IsWordChar(sql[j - 1])
                 /\ Upper(SubSeq(sql, j, SpanWord(sql, j) - 1))
                        \in {KwFrom, KwJoin}}} \ {<<>>}

\* C17: validate_tables rejects first when the allowed tables are not all in
\* the global whitelist; otherwise it accepts only if every table identifier
\* that follows FROM or JOIN is an allowed table, and a statement with a
\* table outside the allowed list is rejected naming that table, a globally
\* whitelisted one included.
C17_TargetsWithinAllowed ==
    fn_call[1] = "validate_tables" =>
        LET outside == FromJoinTargets(fn_call[2]) \ Range(fn_call[3])
        IN IF ~(Range(fn_call[3]) \subseteq whitelisted_tables)
           THEN ~fn_ret.valid /\ fn_ret.check = "global_whitelist"
           ELSE IF outside # {}
           THEN ~fn_ret.valid /\ outside \subseteq fn_ret.names
           ELSE fn_ret.valid

\* The statements, as sent after LIMIT injection, that hold more than one
\* occurrence of SELECT.
SeveralSelects ==
    {sql \in Range(WithLimit) :
        Cardinality({i \in 1..Len(sql) : MatchesAt(Upper(sql), i,
            KwSelect)}) > 1}

\* C18: a statement with more than one SELECT occurrence is rejected by the
\* whitelist stage of execute_query and is never sent to the database.
C18_SubqueryNeverSent ==
    \A t \in Threads :
        ex_sql[t] \in SeveralSelects =>
            /\ ~StatementSent(t)
            /\ ex_pc[t] = "idle"

\* ---------------------------------------------------- limit enforcer claims
\* The numbers n of the LIMIT n clauses of sql: LIMIT as a token in any
\* letter case, whitespace, digits.
LimitNumbers(sql) ==
    {DigitsToInt(SubSeq(sql, SpanSpace(sql, i + 5),
                        SpanDigit(sql, SpanSpace(sql, i + 5)) - 1)) :
        i \in {j \in 1..Len(sql) :
                 /\ IsWordChar(sql[j])
                 /\ j = 1 \/ ~IsWordChar(sql[j - 1])
                 /\ SpanWord(sql, j) = j + 5
                 /\ Upper(SubSeq(sql, j, j + 4)) = KwLimit
                 /\ SpanSpace(sql, j + 5) > j + 5
                 /\ SpanDigit(sql, SpanSpace(sql, j + 5))
                        > SpanSpace(sql, j + 5)}}

\* sql without its trailing whitespace and the terminator before it.
WithoutTerminator(sql) ==
    LET text == RStrip(sql)
    IN IF text # <<>> /\ text[Len(text)] = ";"
       THEN SubSeq(text, 1, Len(text) - 1)
       ELSE text

\* sql with the number of its LIMIT clause replaced by n: the text before
\* the keyword, LIMIT n, the text after the digits.
WithLimitNumber(sql, n) ==
    LET i == CHOOSE j \in 1..Len(sql) :
                 /\ WordBoundaryAt(sql, j)
                 /\ Upper(SubSeq(sql, j, j + 4)) = KwLimit
        rest == SpanDigit(sql, SpanSpace(sql, i + 5))
    IN SubSeq(sql, 1, i - 1) \o <<"L","I","M","I","T"," ">> \o IntToStr(n)
       \o SubSeq(sql, rest, Len(sql))

CarriesBoundedLimit(sql) ==
    /\ LimitNumbers(sql) # {}
    /\ \A n \in LimitNumbers(sql) : 1 <= n /\ n <= max_row_limit

\* C20: for every statement and every requested limit (absent, zero,
\* negative, in range, above the maximum), with a limit required the
\* statement produced carries a LIMIT n clause with 1 <= n <= max_row_limit,
\* and n = min(requested or default, maximum) when the clause was absent.
C20_BoundedRowCap ==
    (fn_call[1] \in {"inject_limit", "inject_limit_clause"} /\ fn_call[4]) =>
        /\ CarriesBoundedLimit(fn_ret)
        /\ LimitNumbers(fn_call[2]) = {} =>
              LimitNumbers(fn_ret) =
                  {Min(OrDefault(fn_call[3]), max_row_limit)}

\* C29: limit injection is idempotent: for every statement and every
\* requested limit, zero and negative ones included, inject_limit applied
\* to its own output with the same arguments returns that output unchanged.
C29_InjectionIdempotent ==
    fn_call[1] = "inject_limit" =>
        inject_limit(fn_ret, fn_call[3], fn_call[4]) = fn_ret

\* C30: the two limit enforcers agree: for every statement and every
\* requested limit, QueryExecutor.inject_limit_clause(sql, limit) returns the
\* text LimitInjector.inject_limit(sql, limit, template_requires_limit=True)
\* returns.
C30_EnforcersAgree ==
    /\ fn_call[1] = "inject_limit_clause" =>
          fn_ret = inject_limit(fn_call[2], fn_call[3], TRUE)
    /\ (fn_call[1] = "inject_limit" /\ fn_call[4]) =>
          fn_ret = inject_limit_clause(fn_call[2], fn_call[3])

\* QueryExecutor.inject_limit_clause called with a requested limit of 0 on a
\* terminated statement without a LIMIT clause: the default was appended.
C30_Witness ==
    /\ fn_call = <<"inject_limit_clause", LimitStatement(1, 2), Some(0),
        TRUE>>
    /\ fn_ret = LimitStatement(1, 1) \o <<" ","L","I","M","I","T"," ">>
                    \o IntToStr(default_row_limit)

====
